---------------------------- MODULE Spec2Model ----------------------------
(***************************************************************************)
(* State-machine model of the survival-game simulation core:               *)
(*   - Stats (value object) and Character (entity)                         *)
(*   - Item (entity) and Inventory (entity)                                *)
(*   - Resource (entity) and the resource definitions                      *)
(*   - CraftItemUseCase and GatherResourceUseCase with the events they     *)
(*     publish                                                             *)
(* Numbers are integers; the program's fractional weights (0.5 per unit)   *)
(* are scaled to whole units.                                              *)
(***************************************************************************)
EXTENDS Integers, Sequences, FiniteSets, TLC

VARIABLES
    stats,      \* Character._stats    : the owned Stats value
    position,   \* Character._position : the owned Position value
    isAlive,    \* Character._isAlive  : the stored alive flag
    lastCall,   \* the last Character operation: name, argument, health and flag before it
    slots,      \* Inventory.slots     : slot index -> Item or NoItem
    maxWeight,  \* Inventory.maxWeight : the weight ceiling
    lastInv,    \* the last Inventory operation: name, arguments, returned value
    resource,   \* Resource: config, _health, _isDepleted, _respawnTimer
    lastRes,    \* the last Resource operation: name, argument, returned value
    lastUse,    \* the last use-case call: name, argument, result, events published
    restored,   \* the last fromJSON(toJSON(x)): what was saved and what came back
    listeners,  \* EventBus.listeners : event type -> Set of callbacks
    unsubscribers, \* the closures subscribe has returned: (event type, callback)
    subscribed, \* the subscriptions in force, oldest first
    lastBus,    \* the last EventBus call: name, arguments, callbacks invoked
    normalizedTime, \* TimeService.normalizedTime, in tenths of a second of the day
    lastTime,   \* the last TimeService call: name, argument, event published
    weather,    \* WeatherService fields: current and target weather, intensity,
                \* transitionProgress, timeUntilChange, isNight
    lastWeather, \* the last WeatherService call: name, argument, event published
    trail,      \* the calls of the Character test's chain so far: (name, argument)
    heldItem,   \* an Item held on its own, or NoItem
    lastItem    \* the last call on that Item: name, argument, returned item

charVars == <<stats, position, isAlive, lastCall>>
invVars  == <<slots, maxWeight, lastInv>>
resVars  == <<resource, lastRes>>
busVars  == <<listeners, unsubscribers, subscribed, lastBus>>
timeVars == <<normalizedTime, lastTime>>
weatherVars == <<weather, lastWeather>>
itemVars == <<heldItem, lastItem>>
svcVars  == <<restored, busVars, timeVars, weatherVars, trail, itemVars>>
vars     == <<stats, position, isAlive, lastCall, slots, maxWeight, lastInv,
             resource, lastRes, lastUse, restored,
             listeners, unsubscribers, subscribed, lastBus,
             normalizedTime, lastTime, weather, lastWeather, trail, heldItem,
             lastItem>>

(***************************************************************************)
(* Bounds of the model                                                     *)
(***************************************************************************)
MaxStat   == 3    \* largest maxHealth / maxStamina explored
MaxNeed   == 2    \* largest maxHunger / maxThirst explored
MaxSlots  == 2    \* Inventory.maxSlots explored
MaxWeight == 5    \* Inventory.maxWeight explored in the general specification
WoodStack == 3    \* maxStack of the stackable material of the catalogue
MantissaBits == 3 \* bits of a floating-point significand in the drop rolls

Max2(a, b) == IF a >= b THEN a ELSE b
Min2(a, b) == IF a <= b THEN a ELSE b

(***************************************************************************)
(* Stats                                                                   *)
(***************************************************************************)
\* Stats.validateStats: the four guarded fields lie in [0, max]
validateStats(s) ==
    /\ ~(s.health < 0 \/ s.health > s.maxHealth)
    /\ ~(s.hunger < 0 \/ s.hunger > s.maxHunger)
    /\ ~(s.thirst < 0 \/ s.thirst > s.maxThirst)
    /\ ~(s.stamina < 0 \/ s.stamina > s.maxStamina)

\* Mutant of withHealth: the upper clamp is missing
withHealthNoUpperClamp(s, health) ==
    [s EXCEPT !.health = Max2(0, health)]

\* Stats.withHealth
withHealth(s, health) ==
    [s EXCEPT !.health = Max2(0, Min2(health, s.maxHealth))]

\* Stats.withHunger
withHunger(s, hunger) ==
    [s EXCEPT !.hunger = Max2(0, Min2(hunger, s.maxHunger))]

\* Stats.withThirst
withThirst(s, thirst) ==
    [s EXCEPT !.thirst = Max2(0, Min2(thirst, s.maxThirst))]

\* Stats.withTemperature: temperature is not clamped
withTemperature(s, temperature) ==
    [s EXCEPT !.temperature = temperature]

\* Stats.withStamina
withStamina(s, stamina) ==
    [s EXCEPT !.stamina = Max2(0, Min2(stamina, s.maxStamina))]

\* Stats.isAlive
StatsIsAlive(s) == s.health > 0

\* The Stats values Stats.create accepts, within the bounds
Temperatures == {30, 37}
StatsValues ==
    { s \in [ health : 0..MaxStat, maxHealth : {MaxStat},
              hunger : 0..MaxNeed, maxHunger : {MaxNeed},
              thirst : 0..MaxNeed, maxThirst : {MaxNeed},
              temperature : Temperatures,
              stamina : 0..MaxStat, maxStamina : {MaxStat - 1} ] :
        validateStats(s) }

\* The Stats values handed to updateStats by callers
UpdateInputs == { s \in StatsValues : s.temperature = 37 /\ s.hunger = s.maxHunger }

\* Position values explored (Position is an unconstrained 3-vector)
Positions == { <<0, 0, 0>>, <<1, 0, 2>> }
PositionZero == <<0, 0, 0>>

\* Amounts handed to the Character's operations, negative and over-max included
Amounts == (0 - 1)..(MaxStat + 1)

(***************************************************************************)
(* Character                                                               *)
(***************************************************************************)
\* The record of a Character call: its name, its argument, the health and the
\* alive flag before it, and whether it threw
Call(op, amount, threw) ==
    [op |-> op, amount |-> amount, preHealth |-> stats.health, preAlive |-> isAlive,
     threw |-> threw]

\* Mutant of updateStats: the alive flag is left as it was
updateStatsKeepFlag(newStats) ==
    /\ stats' = newStats
    /\ isAlive' = isAlive

\* Character.updateStats: replace the stats and re-derive the alive flag
updateStats(newStats) ==
    /\ stats' = newStats
    /\ isAlive' = StatsIsAlive(newStats)

\* A mutator of the Character: the Stats constructor validates the new value and
\* throws on a value out of range, which leaves the Character as it was;
\* otherwise updateStats installs it
Mutate(op, amount, newStats) ==
    /\ IF validateStats(newStats)
       THEN /\ updateStats(newStats)
            /\ lastCall' = Call(op, amount, FALSE)
       ELSE /\ UNCHANGED <<stats, isAlive>>
            /\ lastCall' = Call(op, amount, TRUE)
    /\ UNCHANGED <<position, invVars, resVars, lastUse, svcVars>>

\* Character.create: the constructor's _isAlive parameter keeps its default, true
CharacterCreate ==
    /\ stats \in StatsValues
    /\ position = PositionZero
    /\ isAlive = TRUE
    /\ lastCall = [op |-> "create", amount |-> 0, preHealth |-> stats.health,
                   preAlive |-> TRUE, threw |-> FALSE]

\* Character.updateStats called with a Stats value of the caller's
UpdateStats ==
    \E s \in UpdateInputs :
        /\ updateStats(s)
        /\ lastCall' = Call("updateStats", 0, FALSE)
        /\ UNCHANGED <<position, invVars, resVars, lastUse, svcVars>>

\* Character.moveTo
MoveTo ==
    \E p \in Positions :
        /\ position' = p
        /\ lastCall' = Call("moveTo", 0, FALSE)
        /\ UNCHANGED <<stats, isAlive, invVars, resVars, lastUse, svcVars>>

\* Character.takeDamage
TakeDamage ==
    \E amount \in Amounts :
        Mutate("takeDamage", amount, withHealth(stats, stats.health - amount))

\* Character.heal
Heal ==
    \E amount \in Amounts :
        Mutate("heal", amount, withHealth(stats, stats.health + amount))

\* Character.eat
Eat ==
    \E amount \in Amounts :
        Mutate("eat", amount, withHunger(stats, stats.hunger + amount))

\* Character.drink
Drink ==
    \E amount \in Amounts :
        Mutate("drink", amount, withThirst(stats, stats.thirst + amount))

\* Character.updateTemperature
UpdateTemperature ==
    \E newTemp \in Temperatures :
        Mutate("updateTemperature", 0, withTemperature(stats, newTemp))

\* Character.useStamina
UseStamina ==
    \E amount \in Amounts :
        Mutate("useStamina", amount, withStamina(stats, stats.stamina - amount))

\* Character.regenStamina
RegenStamina ==
    \E amount \in Amounts :
        Mutate("regenStamina", amount, withStamina(stats, stats.stamina + amount))

(***************************************************************************)
(* Item                                                                    *)
(* An item is a record of the fields the inventory reads: id, name, type,  *)
(* maxStack, weight and the mutable quantity.  An id is a sequence of      *)
(* string pieces, so that a generated id is the source id with pieces      *)
(* appended, as string concatenation does.                                 *)
(***************************************************************************)
NoItem == [null |-> TRUE]
NullSlot == 0 - 1

\* Item constructor: the quantity must lie in [0, maxStack]
ItemValid(item) == ~(item.quantity < 0 \/ item.quantity > item.maxStack)

\* Item.isStackable
isStackable(item) == item.maxStack > 1

\* Item.isStackFull
isStackFull(item) == item.quantity >= item.maxStack

\* Mutant of addToStack: the amount is assigned instead of added
addToStackAssign(item, amount) ==
    [item EXCEPT !.quantity = Min2(amount, item.maxStack)]

\* Item.addToStack
addToStack(item, amount) ==
    [item EXCEPT !.quantity = Min2(item.quantity + amount, item.maxStack)]

\* Mutant of removeFromStack: the quantity is left as it was
removeFromStackKeep(item, amount) == item

\* Item.removeFromStack
removeFromStack(item, amount) ==
    [item EXCEPT !.quantity = Max2(item.quantity - amount, 0)]

\* Item.canStackWith: only the receiver's fullness is looked at
canStackWith(this, other) ==
    /\ this.id = other.id
    /\ this.name = other.name
    /\ this.type = other.type
    /\ isStackable(this)
    /\ ~isStackFull(this)

\* Item.getTotalWeight
getTotalWeight(item) == item.weight * item.quantity

\* The kinds of item explored: a stackable material, a second material that
\* shares its id but not its name or maxStack, and a non-stackable tool
Wood == [id |-> <<"wood">>, name |-> "Wood", type |-> "material",
         maxStack |-> WoodStack, weight |-> 2]
Oak  == [id |-> <<"wood">>, name |-> "Oak", type |-> "material",
         maxStack |-> 2, weight |-> 1]
Axe  == [id |-> <<"stone_axe">>, name |-> "Stone Axe", type |-> "tool",
         maxStack |-> 1, weight |-> 3]
Catalogue == {Wood, Oak, Axe}

\* Item.create for a kind and a quantity
ItemOf(kind, quantity) ==
    [id |-> kind.id, name |-> kind.name, type |-> kind.type,
     maxStack |-> kind.maxStack, weight |-> kind.weight, quantity |-> quantity]

\* Every item Item.create accepts for the kinds explored
Incoming ==
    { it \in UNION { { ItemOf(k, q) : q \in 0..k.maxStack } : k \in Catalogue } :
        ItemValid(it) }

(***************************************************************************)
(* Inventory                                                               *)
(* A slot holds its own Item object: every item handed to addItem is a     *)
(* fresh object, as GatherResourceUseCase, CraftItemUseCase and the        *)
(* inventory panel's split create one per call.  The Map keeps its keys in *)
(* insertion order 0..maxSlots-1, so "first" is the lowest index.          *)
(***************************************************************************)
SlotIndices == 0..(MaxSlots - 1)

\* Inventory.getAllItems / getCurrentWeight: the sum of the occupied slots' weights
RECURSIVE WeightFrom(_, _)
WeightFrom(s, i) ==
    IF i >= MaxSlots THEN 0
    ELSE (IF s[i] = NoItem THEN 0 ELSE getTotalWeight(s[i])) + WeightFrom(s, i + 1)

getCurrentWeight(s) == WeightFrom(s, 0)

\* Inventory.countItem: the sum of the quantities of the slots holding that id
RECURSIVE CountFrom(_, _, _)
CountFrom(s, itemId, i) ==
    IF i >= MaxSlots THEN 0
    ELSE (IF s[i] # NoItem /\ s[i].id = itemId THEN s[i].quantity ELSE 0)
         + CountFrom(s, itemId, i + 1)

countItem(s, itemId) == CountFrom(s, itemId, 0)

\* Inventory.findStackableSlot: the first slot whose item can take the incoming one
findStackableSlot(s, item) ==
    LET fit == { i \in SlotIndices : s[i] # NoItem /\ canStackWith(s[i], item) }
    IN  IF fit = {} THEN NullSlot ELSE CHOOSE i \in fit : \A j \in fit : i <= j

\* Inventory.getEmptySlotIndex: the first empty slot
getEmptySlotIndex(s) ==
    LET free == { i \in SlotIndices : s[i] = NoItem }
    IN  IF free = {} THEN NullSlot ELSE CHOOSE i \in free : \A j \in free : i <= j

\* Inventory.hasSpaceFor
hasSpaceFor(s, mw, item) ==
    IF findStackableSlot(s, item) # NullSlot THEN TRUE
    ELSE IF getEmptySlotIndex(s) # NullSlot
         THEN getCurrentWeight(s) + getTotalWeight(item) <= mw
         ELSE FALSE

\* Inventory.addItem: the slot table after the call and the returned pair
RECURSIVE addItem(_, _, _)
addItem(s, mw, item) ==
    IF ~hasSpaceFor(s, mw, item)
    THEN [slots |-> s, success |-> FALSE, remainingItem |-> item]
    ELSE
      LET stackableSlot == findStackableSlot(s, item) IN
      IF stackableSlot # NullSlot /\ canStackWith(s[stackableSlot], item)
      THEN
        LET existingItem == s[stackableSlot]
            spaceInStack == existingItem.maxStack - existingItem.quantity
            amountToAdd  == Min2(item.quantity, spaceInStack)
            merged       == [s EXCEPT ![stackableSlot] = addToStack(existingItem, amountToAdd)]
            remaining    == item.quantity - amountToAdd
        IN  IF remaining > 0
            THEN addItem(merged, mw, removeFromStack(item, amountToAdd))
            ELSE [slots |-> merged, success |-> TRUE, remainingItem |-> NoItem]
      ELSE
        LET emptySlot == getEmptySlotIndex(s) IN
        IF emptySlot # NullSlot
        THEN [slots |-> [s EXCEPT ![emptySlot] = item], success |-> TRUE,
              remainingItem |-> NoItem]
        ELSE [slots |-> s, success |-> FALSE, remainingItem |-> item]

\* The record of an inventory call: its name, arguments and returned value
InvCall(op, item, a, b, ok, ret, threw) ==
    [op |-> op, item |-> item, a |-> a, b |-> b, ok |-> ok, ret |-> ret, threw |-> threw]

\* Inventory.create: every slot present and empty
InventoryCreate ==
    /\ slots = [i \in SlotIndices |-> NoItem]
    /\ maxWeight = MaxWeight
    /\ lastInv = InvCall("create", NoItem, NullSlot, NullSlot, TRUE, NoItem, FALSE)

\* Inventory.addItem as a step
AddItem(item) ==
    LET r == addItem(slots, maxWeight, item) IN
    /\ slots' = r.slots
    /\ lastInv' = InvCall("addItem", item, NullSlot, NullSlot, r.success, r.remainingItem, FALSE)
    /\ UNCHANGED <<maxWeight, charVars, resVars, lastUse, svcVars>>

\* Amounts handed to removeItemAt: negative, zero, partial, exact and over
RemoveAmounts == (0 - 1)..WoodStack

\* Date.now() readings
Clock == {0, 1}

\* Mutant of RemovedId: the removed item keeps the source id
RemovedIdSame(id, now) == id

\* The generated id of a partially removed item: `${item.id}_removed_${Date.now()}`
RemovedId(id, now) == id \o <<"_removed_", ToString(now)>>

\* Inventory.removeItemAt: the slot table after the call, the returned item and
\* whether Item.create threw, now being the reading of Date.now()
removeItemAt(s, slotIndex, amount, now) ==
    LET item == s[slotIndex] IN
    IF item = NoItem
    THEN [slots |-> s, ok |-> FALSE, ret |-> NoItem, threw |-> FALSE]
    ELSE IF amount >= item.quantity
    THEN [slots |-> [s EXCEPT ![slotIndex] = NoItem], ok |-> TRUE, ret |-> item,
          threw |-> FALSE]
    ELSE LET removedItem == [item EXCEPT !.id = RemovedId(item.id, now),
                                         !.quantity = amount]
         IN  IF ~ItemValid(removedItem)
             THEN \* Item.create throws before the slot's item is touched
                  [slots |-> s, ok |-> FALSE, ret |-> NoItem, threw |-> TRUE]
             ELSE [slots |-> [s EXCEPT ![slotIndex] = removeFromStack(item, amount)],
                   ok |-> TRUE, ret |-> removedItem, threw |-> FALSE]

\* Inventory.removeItemAt as a step; the clock is read only on a partial removal
RemoveItemAt(slotIndex, amount) ==
    \E now \in IF slots[slotIndex] # NoItem /\ amount < slots[slotIndex].quantity
               THEN Clock ELSE {0} :
        LET r == removeItemAt(slots, slotIndex, amount, now) IN
        /\ slots' = r.slots
        /\ lastInv' = InvCall("removeItemAt", NoItem, slotIndex, amount, r.ok, r.ret, r.threw)
        /\ UNCHANGED <<maxWeight, charVars, resVars, lastUse, svcVars>>

\* Mutant of moveItem: a source emptied by a merge stays in its slot
moveItemLeaveEmptied(s, fromSlot, toSlot) ==
    LET fromItem == s[fromSlot]
        toItem   == s[toSlot]
    IN
    IF fromItem = NoItem THEN [slots |-> s, ret |-> FALSE]
    ELSE IF toItem = NoItem
    THEN [slots |-> [[s EXCEPT ![toSlot] = fromItem] EXCEPT ![fromSlot] = NoItem],
          ret |-> TRUE]
    ELSE IF canStackWith(fromItem, toItem)
    THEN LET spaceInStack == toItem.maxStack - toItem.quantity
             amountToMove == Min2(fromItem.quantity, spaceInStack)
             s1 == [s EXCEPT ![toSlot] = addToStack(s[toSlot], amountToMove)]
             s2 == [s1 EXCEPT ![fromSlot] = removeFromStack(s1[fromSlot], amountToMove)]
         IN  [slots |-> s2, ret |-> TRUE]
    ELSE [slots |-> [[s EXCEPT ![fromSlot] = toItem] EXCEPT ![toSlot] = fromItem],
          ret |-> TRUE]

\* Inventory.moveItem: the slot table after the call.  fromItem and toItem are
\* the objects held by the two slots, the same object when fromSlot = toSlot, so
\* the two stack updates are applied to the table one after the other.
moveItem(s, fromSlot, toSlot) ==
    LET fromItem == s[fromSlot]
        toItem   == s[toSlot]
    IN
    IF fromItem = NoItem THEN [slots |-> s, ret |-> FALSE]
    ELSE IF toItem = NoItem
    THEN [slots |-> [[s EXCEPT ![toSlot] = fromItem] EXCEPT ![fromSlot] = NoItem],
          ret |-> TRUE]
    ELSE IF canStackWith(fromItem, toItem)
    THEN LET spaceInStack == toItem.maxStack - toItem.quantity
             amountToMove == Min2(fromItem.quantity, spaceInStack)
             s1 == [s EXCEPT ![toSlot] = addToStack(s[toSlot], amountToMove)]
             s2 == [s1 EXCEPT ![fromSlot] = removeFromStack(s1[fromSlot], amountToMove)]
         IN  [slots |-> IF s2[fromSlot].quantity = 0
                        THEN [s2 EXCEPT ![fromSlot] = NoItem]
                        ELSE s2,
              ret |-> TRUE]
    ELSE [slots |-> [[s EXCEPT ![fromSlot] = toItem] EXCEPT ![toSlot] = fromItem],
          ret |-> TRUE]

\* Inventory.moveItem as a step
MoveItem(fromSlot, toSlot) ==
    LET r == moveItem(slots, fromSlot, toSlot) IN
    /\ slots' = r.slots
    /\ lastInv' = InvCall("moveItem", NoItem, fromSlot, toSlot, r.ret, NoItem, FALSE)
    /\ UNCHANGED <<maxWeight, charVars, resVars, lastUse, svcVars>>

(***************************************************************************)
(* Resource                                                                *)
(* The variable resource holds the entity's config and its three mutable   *)
(* fields.  Times are whole seconds; a drop chance is held in percent.     *)
(* gatherTime and requiredTool are read by no operation of the entity and  *)
(* are left out of the config.                                             *)
(***************************************************************************)
\* RESOURCE_DEFINITIONS: the configs every Resource of the world is built from
pine_tree ==
    [type |-> "tree", name |-> "Pine Tree", health |-> 5,
     drops |-> << [itemId |-> <<"wood">>, itemName |-> "Wood",
                   minQuantity |-> 2, maxQuantity |-> 4, dropChance |-> 100] >>,
     staminaCost |-> 5, respawnTime |-> 120]
rock_formation ==
    [type |-> "rock", name |-> "Rock Formation", health |-> 4,
     drops |-> << [itemId |-> <<"stone">>, itemName |-> "Stone",
                   minQuantity |-> 2, maxQuantity |-> 3, dropChance |-> 100],
                  [itemId |-> <<"ore">>, itemName |-> "Iron Ore",
                   minQuantity |-> 1, maxQuantity |-> 1, dropChance |-> 30] >>,
     staminaCost |-> 8, respawnTime |-> 180]
berry_bush ==
    [type |-> "bush", name |-> "Berry Bush", health |-> 1,
     drops |-> << [itemId |-> <<"berries">>, itemName |-> "Berries",
                   minQuantity |-> 1, maxQuantity |-> 3, dropChance |-> 100] >>,
     staminaCost |-> 2, respawnTime |-> 300]
RESOURCE_DEFINITIONS == {pine_tree, rock_formation, berry_bush}

\* Resource constructor: full health, not depleted, countdown 0
ResourceNew(config) ==
    [config |-> config, health |-> config.health, isDepleted |-> FALSE, respawnTimer |-> 0]

\* The roll of a quantity is computed in binary floating point.  The model
\* keeps the format's rounding (to nearest, ties to even) and narrows its
\* significand from 53 bits to MantissaBits; a number is held as the integer
\* value * 2^MantissaBits.
RECURSIVE Pow2(_)
Pow2(n) == IF n = 0 THEN 1 ELSE 2 * Pow2(n - 1)

One == Pow2(MantissaBits)

\* Math.random(): the multiples of 2^-MantissaBits in [0, 1), what an engine
\* that fills the whole significand returns
Randoms == 0..(One - 1)

\* The bits a value has beyond the significand
RECURSIVE ExcessBits(_, _)
ExcessBits(x, s) == IF x \div Pow2(s) < One THEN s ELSE ExcessBits(x, s + 1)

\* The floating-point number an exact result is rounded to
ToDouble(x) ==
    LET s == ExcessBits(x, 0) IN
    IF s = 0 THEN x
    ELSE LET q    == x \div Pow2(s)
             rem  == x % Pow2(s)
             half == Pow2(s - 1)
         IN  (IF rem > half \/ (rem = half /\ q % 2 = 1) THEN q + 1 ELSE q) * Pow2(s)

\* Math.floor(drop.minQuantity + Math.random() * (drop.maxQuantity - drop.minQuantity + 1))
rollQuantity(drop, random) ==
    ToDouble(drop.minQuantity * One
             + ToDouble(random * (drop.maxQuantity - drop.minQuantity + 1))) \div One

\* Every quantity a roll can give
Quantities(drop) == { rollQuantity(drop, random) : random \in Randoms }

\* One pushed drop of rollDrops: the two quantities are rolled independently
Rolls(drop) ==
    { [drop EXCEPT !.minQuantity = a, !.maxQuantity = b] :
        a \in Quantities(drop), b \in Quantities(drop) }

\* Resource.rollDrops: every list the random draws can produce.  A drop is
\* pushed when Math.random() <= dropChance, which can fail only below chance 1
RECURSIVE rollDrops(_)
rollDrops(drops) ==
    IF drops = <<>> THEN { <<>> }
    ELSE LET rest == rollDrops(Tail(drops))
             drop == Head(drops)
         IN  { <<r>> \o t : r \in Rolls(drop), t \in rest }
             \cup (IF drop.dropChance < 100 THEN rest ELSE {})

\* Mutant of respawn: the depleted flag is left set
respawnKeepFlag(r) ==
    [r EXCEPT !.health = r.config.health, !.respawnTimer = 0]

\* Resource.respawn
respawn(r) ==
    [r EXCEPT !.health = r.config.health, !.isDepleted = FALSE, !.respawnTimer = 0]

\* Mutant of hit: a hit takes two points of health
hitTwice(r, rolled) ==
    IF r.isDepleted THEN [resource |-> r, drops |-> <<>>]
    ELSE LET hit1 == [r EXCEPT !.health = r.health - 2] IN
         IF hit1.health <= 0
         THEN [resource |-> [hit1 EXCEPT !.isDepleted = TRUE,
                                         !.respawnTimer = r.config.respawnTime],
               drops |-> rolled]
         ELSE [resource |-> hit1, drops |-> <<>>]

\* Mutant of hit: the countdown is not armed on depletion
hitNoCountdown(r, rolled) ==
    IF r.isDepleted THEN [resource |-> r, drops |-> <<>>]
    ELSE LET hit1 == [r EXCEPT !.health = r.health - 1] IN
         IF hit1.health <= 0
         THEN [resource |-> [hit1 EXCEPT !.isDepleted = TRUE], drops |-> rolled]
         ELSE [resource |-> hit1, drops |-> <<>>]

\* Resource.hit: the entity after the call and the returned drop list, rolled
\* being the outcome of rollDrops when the hit depletes
hit(r, rolled) ==
    IF r.isDepleted THEN [resource |-> r, drops |-> <<>>]
    ELSE LET hit1 == [r EXCEPT !.health = r.health - 1] IN
         IF hit1.health <= 0
         THEN [resource |-> [hit1 EXCEPT !.isDepleted = TRUE,
                                         !.respawnTimer = r.config.respawnTime],
               drops |-> rolled]
         ELSE [resource |-> hit1, drops |-> <<>>]

\* Mutant of updateRespawn: the countdown is restarted instead of decremented
updateRespawnRestart(r, deltaTime) ==
    IF ~r.isDepleted THEN [resource |-> r, ret |-> FALSE]
    ELSE LET timed == [r EXCEPT !.respawnTimer = r.config.respawnTime - deltaTime] IN
         IF timed.respawnTimer <= 0
         THEN [resource |-> respawn(timed), ret |-> TRUE]
         ELSE [resource |-> timed, ret |-> FALSE]

\* Resource.updateRespawn: the entity after the call and the returned flag
updateRespawn(r, deltaTime) ==
    IF ~r.isDepleted THEN [resource |-> r, ret |-> FALSE]
    ELSE LET timed == [r EXCEPT !.respawnTimer = r.respawnTimer - deltaTime] IN
         IF timed.respawnTimer <= 0
         THEN [resource |-> respawn(timed), ret |-> TRUE]
         ELSE [resource |-> timed, ret |-> FALSE]

\* The record of a Resource call: its name, its argument and what it returned,
\* with two counters kept for the claims: the hits taken since the resource was
\* last at full health, and the time passed to updateRespawn since it was last
\* depleted
ResCall(op, deltaTime, drops, ret, hits, elapsed) ==
    [op |-> op, deltaTime |-> deltaTime, drops |-> drops, ret |-> ret,
     hits |-> hits, elapsed |-> elapsed]

\* new Resource(id, config) for a config of RESOURCE_DEFINITIONS
ResourceCreate ==
    /\ resource \in { ResourceNew(config) : config \in RESOURCE_DEFINITIONS }
    /\ lastRes = ResCall("create", 0, <<>>, FALSE, 0, 0)

\* resource.hit(toolId) as a step on the resource's variables
HitStep(rolled) ==
    LET r == hit(resource, rolled) IN
    /\ resource' = r.resource
    /\ lastRes' = ResCall("hit", 0, r.drops, FALSE,
                          IF resource.isDepleted THEN lastRes.hits ELSE lastRes.hits + 1,
                          IF r.resource.isDepleted /\ ~resource.isDepleted
                          THEN 0 ELSE lastRes.elapsed)

\* Resource.hit called on its own
Hit ==
    \E rolled \in rollDrops(resource.config.drops) :
        /\ HitStep(rolled)
        /\ UNCHANGED <<charVars, invVars, lastUse, svcVars>>

\* Frame times handed to updateRespawn, in seconds
DeltaTimes == {0, 50, 60, 300}

\* Resource.updateRespawn called on its own
UpdateRespawn(deltaTime) ==
    LET r == updateRespawn(resource, deltaTime) IN
    /\ resource' = r.resource
    /\ lastRes' = ResCall("updateRespawn", deltaTime, <<>>, r.ret,
                          IF r.ret THEN 0 ELSE lastRes.hits,
                          IF resource.isDepleted THEN lastRes.elapsed + deltaTime
                          ELSE lastRes.elapsed)
    /\ UNCHANGED <<charVars, invVars, lastUse, svcVars>>

\* ResourceManager.update: the countdown runs only for a depleted resource
ManagerUpdate(deltaTime) ==
    /\ resource.isDepleted
    /\ UpdateRespawn(deltaTime)

(***************************************************************************)
(* Serialization: toJSON and fromJSON of Character, Item and Inventory     *)
(* A document is a record whose leaves are tagged JSON values: a number,   *)
(* a string, a boolean, an array or null.  A Map is the sequence of its    *)
(* keys in insertion order with its key -> value function.  The Item       *)
(* fields no operation of the model reads (description, rarity, modelPath, *)
(* iconPath, isConsumable, effects) are copied as name and type are and    *)
(* are left out; an item record without a craftingMaterials field is an    *)
(* item created without one, whose craftingMaterials is null.              *)
(***************************************************************************)
JsonNull == [null |-> TRUE]
JNum(n)  == [num |-> n]
JStr(s)  == [str |-> s]
JBool(b) == [bool |-> b]
JArr(a)  == [arr |-> a]

\* The ?? operator: the default stands in for null only
Nullish(v, d) == IF v = JsonNull THEN d ELSE v

\* new Map()
MapNew == [order |-> <<>>, at |-> <<>>]

\* Map.set: a key already present keeps its place
MapSet(m, k, v) ==
    IF k \in DOMAIN m.at
    THEN [order |-> m.order, at |-> [m.at EXCEPT ![k] = v]]
    ELSE [order |-> Append(m.order, k),
          at |-> [x \in DOMAIN m.at \cup {k} |-> IF x = k THEN v ELSE m.at[x]]]

\* new Map(entries)
RECURSIVE MapFrom(_, _)
MapFrom(m, entries) ==
    IF entries = <<>> THEN m
    ELSE MapFrom(MapSet(m, Head(entries)[1], Head(entries)[2]), Tail(entries))

\* Array.from(map.entries())
MapEntries(m) == [i \in 1..Len(m.order) |-> <<m.order[i], m.at[m.order[i]]>>]

\* Item.craftingMaterials
craftingMaterials(item) ==
    IF "craftingMaterials" \in DOMAIN item THEN item.craftingMaterials ELSE JsonNull

\* The Character the application creates, with the state the model holds
ThisCharacter ==
    [id |-> "player_1", characterClass |-> "survivor", name |-> "Player",
     stats |-> stats, position |-> position, isAlive |-> isAlive]

\* The Inventory the application creates, with the state the model holds
ThisInventory ==
    [id |-> "player_inventory", maxSlots |-> MaxSlots, maxWeight |-> maxWeight,
     slots |-> slots]

\* Character.toJSON
CharacterToJSON(c) ==
    [id |-> JStr(c.id), characterClass |-> JStr(c.characterClass), name |-> JStr(c.name),
     stats |-> [health |-> JNum(c.stats.health), maxHealth |-> JNum(c.stats.maxHealth),
                hunger |-> JNum(c.stats.hunger), maxHunger |-> JNum(c.stats.maxHunger),
                thirst |-> JNum(c.stats.thirst), maxThirst |-> JNum(c.stats.maxThirst),
                temperature |-> JNum(c.stats.temperature),
                stamina |-> JNum(c.stats.stamina), maxStamina |-> JNum(c.stats.maxStamina)],
     position |-> [x |-> JNum(c.position[1]), y |-> JNum(c.position[2]),
                   z |-> JNum(c.position[3])],
     isAlive |-> JBool(c.isAlive)]

\* Character.fromJSON: Stats.create throws on a value out of range
CharacterFromJSON(data) ==
    LET s == [health      |-> Nullish(data.stats.health, JNum(100)).num,
              maxHealth   |-> Nullish(data.stats.maxHealth, JNum(100)).num,
              hunger      |-> Nullish(data.stats.hunger, JNum(100)).num,
              maxHunger   |-> Nullish(data.stats.maxHunger, JNum(100)).num,
              thirst      |-> Nullish(data.stats.thirst, JNum(100)).num,
              maxThirst   |-> Nullish(data.stats.maxThirst, JNum(100)).num,
              temperature |-> Nullish(data.stats.temperature, JNum(37)).num,
              stamina     |-> Nullish(data.stats.stamina, JNum(100)).num,
              maxStamina  |-> Nullish(data.stats.maxStamina, JNum(100)).num]
        p == <<Nullish(data.position.x, JNum(0)).num,
               Nullish(data.position.y, JNum(0)).num,
               Nullish(data.position.z, JNum(0)).num>>
    IN  IF validateStats(s)
        THEN [threw |-> FALSE,
              value |-> [id |-> data.id.str, characterClass |-> data.characterClass.str,
                         name |-> data.name.str, stats |-> s, position |-> p,
                         isAlive |-> Nullish(data.isAlive, JBool(TRUE)).bool]]
        ELSE [threw |-> TRUE]

\* Item.toJSON
ItemToJSON(item) ==
    [id |-> JStr(item.id), name |-> JStr(item.name), type |-> JStr(item.type),
     maxStack |-> JNum(item.maxStack), weight |-> JNum(item.weight),
     craftingMaterials |-> IF craftingMaterials(item) = JsonNull
                           THEN JsonNull
                           ELSE JArr(MapEntries(craftingMaterials(item))),
     quantity |-> JNum(item.quantity)]

\* Item.fromJSON: Item.create's constructor throws on a quantity out of range
ItemFromJSON(data) ==
    LET item == [id |-> data.id.str, name |-> data.name.str, type |-> data.type.str,
                 maxStack |-> Nullish(data.maxStack, JNum(1)).num,
                 weight |-> Nullish(data.weight, JNum(1)).num,
                 craftingMaterials |-> IF data.craftingMaterials = JsonNull
                                       THEN JsonNull
                                       ELSE MapFrom(MapNew, data.craftingMaterials.arr),
                 quantity |-> Nullish(data.quantity, JNum(1)).num]
    IN  IF ItemValid(item) THEN [threw |-> FALSE, value |-> item] ELSE [threw |-> TRUE]

\* Inventory.toJSON's itemsArray: the occupied slots from index i on, in slot order
RECURSIVE ItemsFrom(_, _, _)
ItemsFrom(s, i, n) ==
    IF i >= n THEN <<>>
    ELSE IF s[i] = NoItem THEN ItemsFrom(s, i + 1, n)
    ELSE <<[slotIndex |-> JNum(i), item |-> ItemToJSON(s[i])]>> \o ItemsFrom(s, i + 1, n)

\* Inventory.toJSON
InventoryToJSON(inv) ==
    [id |-> JStr(inv.id), maxSlots |-> JNum(inv.maxSlots), maxWeight |-> JNum(inv.maxWeight),
     items |-> JArr(ItemsFrom(inv.slots, 0, inv.maxSlots))]

\* Inventory.fromJSON's itemsMap: slot index -> what Item.fromJSON returned
RECURSIVE ItemsMap(_, _)
ItemsMap(m, itemsArray) ==
    IF itemsArray = <<>> THEN m
    ELSE ItemsMap(MapSet(m, Head(itemsArray).slotIndex.num,
                         ItemFromJSON(Head(itemsArray).item)),
                  Tail(itemsArray))

\* Mutant of InventoryFromJSON: the items are put in the first slots, in order
InventoryFromJSONPacked(data) ==
    LET itemsMap == ItemsMap(MapNew, data.items.arr)
    IN  [threw |-> FALSE,
         value |-> [id |-> data.id.str, maxSlots |-> data.maxSlots.num,
                    maxWeight |-> data.maxWeight.num,
                    slots |-> [i \in 0..(data.maxSlots.num - 1) |->
                                 IF i < Len(itemsMap.order)
                                 THEN itemsMap.at[itemsMap.order[i + 1]].value
                                 ELSE NoItem]]]

\* Inventory.fromJSON: the constructor fills every slot from the map, or with null
InventoryFromJSON(data) ==
    LET itemsMap == ItemsMap(MapNew, data.items.arr)
        maxSlots == Nullish(data.maxSlots, JNum(20)).num
    IN  IF \E k \in DOMAIN itemsMap.at : itemsMap.at[k].threw
        THEN [threw |-> TRUE]
        ELSE [threw |-> FALSE,
              value |-> [id |-> data.id.str, maxSlots |-> maxSlots,
                         maxWeight |-> Nullish(data.maxWeight, JNum(100)).num,
                         slots |-> [i \in 0..(maxSlots - 1) |->
                                      IF i \in DOMAIN itemsMap.at
                                      THEN itemsMap.at[i].value
                                      ELSE NoItem]]]

\* Nothing saved yet
NoDoc == [kind |-> "none"]

\* The craftingMaterials an item may be created with: none, an empty Map, the
\* two materials of the stone axe
MaterialsValues ==
    { JsonNull, MapNew, MapFrom(MapNew, << <<"stone", 3>>, <<"wood", 2>> >>) }

\* An item of the catalogue created with the given craftingMaterials
WithMaterials(item, m) ==
    [id |-> item.id, name |-> item.name, type |-> item.type, maxStack |-> item.maxStack,
     weight |-> item.weight, craftingMaterials |-> m, quantity |-> item.quantity]

\* Character.fromJSON(character.toJSON())
CharacterRoundTrip ==
    /\ restored' = [kind |-> "character", of |-> ThisCharacter,
                    back |-> CharacterFromJSON(CharacterToJSON(ThisCharacter))]
    /\ UNCHANGED <<charVars, invVars, resVars, lastUse, busVars, timeVars, weatherVars,
                   trail, itemVars>>

\* Item.fromJSON(item.toJSON())
ItemRoundTrip ==
    \E it \in Incoming, m \in MaterialsValues :
        /\ restored' = [kind |-> "item", of |-> WithMaterials(it, m),
                        back |-> ItemFromJSON(ItemToJSON(WithMaterials(it, m)))]
        /\ UNCHANGED <<charVars, invVars, resVars, lastUse, busVars, timeVars, weatherVars,
                   trail, itemVars>>

\* Inventory.fromJSON(inventory.toJSON())
InventoryRoundTrip ==
    /\ restored' = [kind |-> "inventory", of |-> ThisInventory,
                    back |-> InventoryFromJSON(InventoryToJSON(ThisInventory))]
    /\ UNCHANGED <<charVars, invVars, resVars, lastUse, busVars, timeVars, weatherVars,
                   trail, itemVars>>

(***************************************************************************)
(* EventBus                                                                *)
(* listeners maps an event type to its Set of callbacks, held as the       *)
(* sequence of the Set's members in insertion order.  A callback is the    *)
(* function object a subscriber registered; the program's callbacks        *)
(* (CraftingPanel, InventoryPanel, WeatherEffects, the lighting system)    *)
(* re-render and return: none subscribes, unsubscribes, publishes or       *)
(* throws.  subscribed is the history the bus does not keep: the           *)
(* subscriptions in force, oldest first, over every event type.            *)
(***************************************************************************)
EventTypes == {"INVENTORY_CHANGED", "WEATHER_CHANGED"}
Callbacks  == {"craftingPanel", "inventoryPanel", "weatherEffects"}

\* The members of a sequence
Range(seq) == { seq[i] : i \in 1..Len(seq) }

\* Set.add: a member already present keeps its place
SetAdd(members, x) == IF x \in Range(members) THEN members ELSE Append(members, x)

\* Set.delete
SetDelete(members, x) == SelectSeq(members, LAMBDA y : y # x)

\* The record of a bus call: its name, its arguments and the callbacks invoked
BusCall(op, type, callback, invoked) ==
    [op |-> op, type |-> type, callback |-> callback, invoked |-> invoked]

\* new EventBus()
EventBusNew ==
    /\ listeners = <<>>
    /\ unsubscribers = {}
    /\ subscribed = <<>>
    /\ lastBus = BusCall("create", "", "", <<>>)

\* EventBus.subscribe: the returned closure is kept as the pair it deletes
Subscribe(type, callback) ==
    LET callbacks == IF type \in DOMAIN listeners THEN listeners[type] ELSE <<>>
    IN  /\ listeners' = [t \in DOMAIN listeners \cup {type} |->
                           IF t = type THEN SetAdd(callbacks, callback) ELSE listeners[t]]
        /\ unsubscribers' = unsubscribers \cup {<<type, callback>>}
        /\ subscribed' = SetAdd(subscribed, <<type, callback>>)
        /\ lastBus' = BusCall("subscribe", type, callback, <<>>)
        /\ UNCHANGED <<charVars, invVars, resVars, lastUse, restored, timeVars, weatherVars,
                   trail, itemVars>>

\* The closure subscribe returned, called by its holder (any number of times)
Unsubscribe(type, callback) ==
    /\ <<type, callback>> \in unsubscribers
    /\ listeners' = [listeners EXCEPT ![type] = SetDelete(@, callback)]
    /\ subscribed' = SetDelete(subscribed, <<type, callback>>)
    /\ lastBus' = BusCall("unsubscribe", type, callback, <<>>)
    /\ UNCHANGED <<unsubscribers, charVars, invVars, resVars, lastUse, restored, timeVars,
                   weatherVars,
                   trail, itemVars>>

\* The members of a sequence, last first
Reverse(seq) == [i \in 1..Len(seq) |-> seq[Len(seq) + 1 - i]]

\* Mutant of publish: the Set is walked from its newest member
publishNewestFirst(ls, type) ==
    IF type \in DOMAIN ls THEN Reverse(ls[type]) ELSE <<>>

\* EventBus.publish: the callbacks invoked, in the order of the calls
publish(ls, type) ==
    IF type \in DOMAIN ls THEN ls[type] ELSE <<>>

\* EventBus.publish as a step
Publish(type) ==
    /\ lastBus' = BusCall("publish", type, "", publish(listeners, type))
    /\ UNCHANGED <<listeners, unsubscribers, subscribed>>
    /\ UNCHANGED <<charVars, invVars, resVars, lastUse, restored, timeVars, weatherVars,
                   trail, itemVars>>

\* EventBus.clear: the Map is emptied; a closure returned earlier still holds
\* its own Set, which no publish reads any more
Clear ==
    /\ listeners' = <<>>
    /\ unsubscribers' = {}
    /\ subscribed' = <<>>
    /\ lastBus' = BusCall("clear", "", "", <<>>)
    /\ UNCHANGED <<charVars, invVars, resVars, lastUse, restored, timeVars, weatherVars,
                   trail, itemVars>>

(***************************************************************************)
(* TimeService                                                             *)
(* Time is counted in tenths of a second: normalizedTime holds the program's*)
(* fraction of the day times the 6000 tenths of DAY_CYCLE_DURATION, so the  *)
(* program's 0.333 is 1998 and its "% 1.0" is "% DayCycle"; a deltaTime is  *)
(* a number of tenths.                                                     *)
(***************************************************************************)
\* GAME_CONFIG.DAY_CYCLE_DURATION, in tenths of a second
DayCycle == 10 * 600

\* TIME_CONFIG.SEGMENTS, each fraction times DayCycle
SEGMENTS == [DAWN_START |-> 1500, DAY_START |-> 1998, DUSK_START |-> 4500,
             NIGHT_START |-> 4998]

\* TIME_CONFIG.TEMPERATURES
TEMPERATURES == [NIGHT |-> 0 - 15, DAWN |-> 0 - 5, DAY |-> 0, DUSK |-> 0 - 5]

\* TimeService.getTimeOfDay
getTimeOfDay(t) ==
    IF t >= SEGMENTS.DAWN_START /\ t < SEGMENTS.DAY_START THEN "dawn"
    ELSE IF t >= SEGMENTS.DAY_START /\ t < SEGMENTS.DUSK_START THEN "day"
    ELSE IF t >= SEGMENTS.DUSK_START /\ t < SEGMENTS.NIGHT_START THEN "dusk"
    ELSE "night"

\* TimeService.getEnvironmentTemperature
getEnvironmentTemperature(t) ==
    CASE getTimeOfDay(t) = "dawn"  -> TEMPERATURES.DAWN
      [] getTimeOfDay(t) = "day"   -> TEMPERATURES.DAY
      [] getTimeOfDay(t) = "dusk"  -> TEMPERATURES.DUSK
      [] getTimeOfDay(t) = "night" -> TEMPERATURES.NIGHT

\* TimeService.getHours, in hours times DayCycle
getHours(t) == t * 24

\* TimeService.isNight
isNight(t) == getTimeOfDay(t) = "night"

\* Mutant of timeUpdate: the clock is not wrapped
timeUpdateNoWrap(t, deltaTime) == t + deltaTime

\* TimeService.update: the new normalizedTime
timeUpdate(t, deltaTime) == (t + deltaTime) % DayCycle

\* The record of a TimeService call: its name, its argument, the event published
TimeCall(op, deltaTime, event) == [op |-> op, deltaTime |-> deltaTime, event |-> event]

\* new TimeService(): the clock starts at 0.333
TimeServiceNew ==
    /\ normalizedTime = 1998
    /\ lastTime = TimeCall("create", 0, JsonNull)

\* The deltaTime values explored: none, a frame, a second, half a day, a day,
\* a day and a half and a frame
TimeSteps == {0, 1, 10, 3000, 6000, 9001}

\* TimeService.update as a step: advance the clock and publish TIME_CHANGED
TimeUpdate(deltaTime) ==
    /\ normalizedTime' = timeUpdate(normalizedTime, deltaTime)
    /\ lastTime' = TimeCall("update", deltaTime,
                     [type |-> "TIME_CHANGED",
                      normalizedTime |-> normalizedTime',
                      timeOfDay |-> getTimeOfDay(normalizedTime'),
                      hours |-> getHours(normalizedTime'),
                      environmentTemperature |-> getEnvironmentTemperature(normalizedTime')])
    /\ UNCHANGED <<charVars, invVars, resVars, lastUse, restored, busVars, weatherVars,
                   trail, itemVars>>

(***************************************************************************)
(* WeatherService                                                          *)
(* Times are whole seconds.  transitionProgress and intensity are held in  *)
(* thirtieths, the program's fraction times TRANSITION_DURATION, so that   *)
(* deltaTime / TRANSITION_DURATION adds deltaTime and the program's 1 is   *)
(* TRANSITION_DURATION.  A movement or visibility modifier is held in      *)
(* hundredths and a transition weight in hundredths; an interpolated       *)
(* getter returns its value times TRANSITION_DURATION.                     *)
(***************************************************************************)
\* WEATHER_CONFIG.TRANSITION_DURATION
TRANSITION_DURATION == 30

\* WEATHER_CONFIG.MODIFIERS, keyed by the WeatherType
MODIFIERS ==
    [clear    |-> [temperature |-> 0,      movement |-> 100, visibility |-> 100],
     cloudy   |-> [temperature |-> 0 - 2,  movement |-> 100, visibility |-> 90],
     snowing  |-> [temperature |-> 0 - 5,  movement |-> 85,  visibility |-> 60],
     blizzard |-> [temperature |-> 0 - 15, movement |-> 60,  visibility |-> 30]]

\* WEATHER_CONFIG.TRANSITION_WEIGHTS, keyed by the WeatherType
TRANSITION_WEIGHTS ==
    [clear    |-> <<0, 60, 30, 10>>,
     cloudy   |-> <<30, 0, 50, 20>>,
     snowing  |-> <<20, 30, 0, 50>>,
     blizzard |-> <<30, 30, 40, 0>>]

\* getTransitionWeights: weatherOrder
weatherOrder == <<"clear", "cloudy", "snowing", "blizzard">>

\* WEATHER_CONFIG.NIGHT_BLIZZARD_BONUS, in hundredths
NIGHT_BLIZZARD_BONUS == 15

\* Mutant of getTransitionWeights: the bonus is added by day and by night
getTransitionWeightsAnyHour(from, night) ==
    [i \in 1..Len(weatherOrder) |->
        TRANSITION_WEIGHTS[from][i]
        + (IF weatherOrder[i] = "blizzard" THEN NIGHT_BLIZZARD_BONUS ELSE 0)]

\* WeatherService.getTransitionWeights: NIGHT_BLIZZARD_BONUS is added at night
getTransitionWeights(from, night) ==
    [i \in 1..Len(weatherOrder) |->
        TRANSITION_WEIGHTS[from][i]
        + (IF weatherOrder[i] = "blizzard" /\ night THEN NIGHT_BLIZZARD_BONUS ELSE 0)]

\* The total weight weightedRandom scales Math.random() by
RECURSIVE TotalWeight(_, _)
TotalWeight(weights, i) ==
    IF i > Len(weights) THEN 0 ELSE weights[i] + TotalWeight(weights, i + 1)

\* WeatherService.weightedRandom's loop from the i-th weather on: random is
\* what is left of Math.random() * total
RECURSIVE weightedRandom(_, _, _)
weightedRandom(weights, random, i) ==
    IF i > Len(weights) THEN "clear"
    ELSE IF random - weights[i] <= 0 THEN weatherOrder[i]
    ELSE weightedRandom(weights, random - weights[i], i + 1)

\* WeatherService.getModifiers
getModifiers(w) == MODIFIERS[w]

\* WeatherService.getWeather
getWeather(w) ==
    IF w.transitionProgress >= TRANSITION_DURATION THEN w.currentWeather ELSE w.targetWeather

\* WeatherService.getTemperatureModifier, times TRANSITION_DURATION
getTemperatureModifier(w) ==
    TRANSITION_DURATION * getModifiers(w.currentWeather).temperature
    + (getModifiers(w.targetWeather).temperature - getModifiers(w.currentWeather).temperature)
      * w.transitionProgress

\* WeatherService.getMovementModifier, times TRANSITION_DURATION
getMovementModifier(w) ==
    TRANSITION_DURATION * getModifiers(w.currentWeather).movement
    + (getModifiers(w.targetWeather).movement - getModifiers(w.currentWeather).movement)
      * w.transitionProgress

\* WeatherService.getVisibility, times TRANSITION_DURATION
getVisibility(w) ==
    TRANSITION_DURATION * getModifiers(w.currentWeather).visibility
    + (getModifiers(w.targetWeather).visibility - getModifiers(w.currentWeather).visibility)
      * w.transitionProgress

\* The three interpolated getters read at one moment
Getters(w) == <<getTemperatureModifier(w), getMovementModifier(w), getVisibility(w)>>

\* Mutant of interpolate: the progress is not capped at 1
interpolateNoCap(w, deltaTime) ==
    [w EXCEPT !.transitionProgress = w.transitionProgress + deltaTime,
              !.intensity = w.transitionProgress + deltaTime]

\* WeatherService.update, lines 25-29: advance the progress, intensity follows
interpolate(w, deltaTime) ==
    [w EXCEPT !.transitionProgress = Min2(TRANSITION_DURATION, w.transitionProgress + deltaTime),
              !.intensity = Min2(TRANSITION_DURATION, w.transitionProgress + deltaTime)]

\* WeatherService.update, lines 31-33: the target becomes the current weather
commit(w) == [w EXCEPT !.currentWeather = w.targetWeather]

\* Mutant of changeWeather: the progress is left as it was
changeWeatherKeepProgress(w, random) ==
    [w EXCEPT !.targetWeather =
                  weightedRandom(getTransitionWeights(w.currentWeather, w.isNight), random, 1),
              !.intensity = 0]

\* WeatherService.changeWeather
changeWeather(w, random) ==
    [w EXCEPT !.targetWeather =
                  weightedRandom(getTransitionWeights(w.currentWeather, w.isNight), random, 1),
              !.transitionProgress = 0,
              !.intensity = 0]

\* The record of a WeatherService call: its name, its argument, the event
\* published, and the getters read around each discrete event of the call:
\* before and after the commit, before and after changeWeather (<<>> when
\* the event did not happen)
WeatherCall(op, deltaTime, event, committed, changed) ==
    [op |-> op, deltaTime |-> deltaTime, event |-> event,
     committed |-> committed, changed |-> changed]

\* Mutant of Durations: a countdown can be shorter than a transition
DurationsShort == {10, 60}

\* WeatherService.randomDuration: values of [MIN_DURATION, MAX_DURATION)
Durations == {60, 90}

\* new WeatherService(): clear weather, fully transitioned, the first countdown drawn
WeatherServiceNew ==
    /\ weather \in [currentWeather : {"clear"}, targetWeather : {"clear"},
                    intensity : {0}, transitionProgress : {TRANSITION_DURATION},
                    timeUntilChange : Durations, isNight : {FALSE}]
    /\ lastWeather = WeatherCall("create", 0, JsonNull, <<>>, <<>>)

\* WeatherService.publishEvent: the event handed to the bus
WeatherEvent(w) ==
    [type |-> "WEATHER_CHANGED", weather |-> getWeather(w), intensity |-> w.intensity,
     temperatureModifier |-> getTemperatureModifier(w),
     movementModifier |-> getMovementModifier(w),
     visibility |-> getVisibility(w)]

\* WeatherService.setNight
SetNight(night) ==
    /\ weather' = [weather EXCEPT !.isNight = night]
    /\ lastWeather' = WeatherCall("setNight", 0, JsonNull, <<>>, <<>>)
    /\ UNCHANGED <<charVars, invVars, resVars, lastUse, restored, busVars, timeVars,
                   trail, itemVars>>

\* The deltaTime values explored: none, a part of a transition, a whole
\* transition and more, a frame after a long pause
WeatherSteps == {0, 10, 20, 60}

\* WeatherService.update: interpolate and commit, count down and change the
\* weather, publish
WeatherUpdate(deltaTime) ==
    LET moving    == weather.transitionProgress < TRANSITION_DURATION
        advanced  == IF moving THEN interpolate(weather, deltaTime) ELSE weather
        commits   == moving /\ advanced.transitionProgress >= TRANSITION_DURATION
        committed == IF commits THEN commit(advanced) ELSE advanced
        counted   == [committed EXCEPT !.timeUntilChange = @ - deltaTime]
        changes   == counted.timeUntilChange <= 0
        total     == TotalWeight(getTransitionWeights(counted.currentWeather,
                                                      counted.isNight), 1)
    IN  \E random \in (IF changes THEN 0..(total - 1) ELSE {0}) :
        \E duration \in (IF changes THEN Durations ELSE {60}) :
            LET changed == IF changes
                           THEN [changeWeather(counted, random)
                                    EXCEPT !.timeUntilChange = duration]
                           ELSE counted
            IN  /\ weather' = changed
                /\ lastWeather' =
                      WeatherCall("update", deltaTime, WeatherEvent(changed),
                                  IF commits THEN <<Getters(advanced), Getters(committed)>>
                                             ELSE <<>>,
                                  IF changes THEN <<Getters(counted), Getters(changed)>>
                                             ELSE <<>>)
                /\ UNCHANGED <<charVars, invVars, resVars, lastUse, restored,
                               busVars, timeVars,
                   trail, itemVars>>

(***************************************************************************)
(* Stats and Character: the status summary                                 *)
(***************************************************************************)
\* Stats.isStarving
isStarving(s) == s.hunger <= 20

\* Stats.isDehydrated
isDehydrated(s) == s.thirst <= 20

\* Stats.isCriticallyHot
isCriticallyHot(s) == s.temperature < 35 \/ s.temperature > 40

\* Character.getStatusSummary
getStatusSummary(s, alive) ==
    [isAlive |-> alive, isCritical |-> s.health <= 20, needsFood |-> isStarving(s),
     needsWater |-> isDehydrated(s), needsWarmth |-> isCriticallyHot(s)]

(***************************************************************************)
(* Item on its own: addToStack, removeFromStack and split called by a      *)
(* holder of the Item, with whatever amount the caller passes              *)
(***************************************************************************)
\* The record of an Item call: its name, its argument, the item split returned
\* (NoItem for null or no return value) and whether the call threw
ItemCall(op, amount, ret, threw) ==
    [op |-> op, amount |-> amount, ret |-> ret, threw |-> threw]

\* No Item is held on its own
ItemIdle ==
    /\ heldItem = NoItem
    /\ lastItem = ItemCall("none", 0, NoItem, FALSE)

\* Item.create for every kind and quantity the constructor accepts
ItemCreate ==
    /\ heldItem \in Incoming
    /\ lastItem = ItemCall("create", 0, NoItem, FALSE)

\* Amounts handed to the Item's operations, negative and over-max included
StackAmounts == (0 - 2)..(WoodStack + 1)

\* The quantities from which the model goes on calling
QuantityExplored(it) == it.quantity >= 0 - 2 /\ it.quantity <= it.maxStack + 2

\* The generated id of a split item: `${this.id}_split_${Date.now()}`
SplitId(id, now) == id \o <<"_split_", ToString(now)>>

\* Item.split: the item after the call, the split item returned (NoItem for
\* null) and whether Item.create threw, which it does after the quantity
\* has been taken off
split(it, amount, now) ==
    IF amount <= 0 \/ amount >= it.quantity
    THEN [original |-> it, split |-> NoItem, threw |-> FALSE]
    ELSE LET splitItem == [it EXCEPT !.id = SplitId(it.id, now), !.quantity = amount]
         IN  [original |-> [it EXCEPT !.quantity = it.quantity - amount],
              split |-> IF ItemValid(splitItem) THEN splitItem ELSE NoItem,
              threw |-> ~ItemValid(splitItem)]

\* Item.addToStack as a step
AddToStack(amount) ==
    /\ heldItem # NoItem /\ QuantityExplored(heldItem)
    /\ heldItem' = addToStack(heldItem, amount)
    /\ lastItem' = ItemCall("addToStack", amount, NoItem, FALSE)
    /\ UNCHANGED <<charVars, invVars, resVars, lastUse, restored, busVars, timeVars,
                   weatherVars, trail>>

\* Item.removeFromStack as a step
RemoveFromStack(amount) ==
    /\ heldItem # NoItem /\ QuantityExplored(heldItem)
    /\ heldItem' = removeFromStack(heldItem, amount)
    /\ lastItem' = ItemCall("removeFromStack", amount, NoItem, FALSE)
    /\ UNCHANGED <<charVars, invVars, resVars, lastUse, restored, busVars, timeVars,
                   weatherVars, trail>>

\* Item.split as a step
Split(amount) ==
    /\ heldItem # NoItem /\ QuantityExplored(heldItem)
    /\ \E now \in Clock :
          /\ heldItem' = split(heldItem, amount, now).original
          /\ lastItem' = ItemCall("split", amount, split(heldItem, amount, now).split,
                                  split(heldItem, amount, now).threw)
    /\ UNCHANGED <<charVars, invVars, resVars, lastUse, restored, busVars, timeVars,
                   weatherVars, trail>>

(***************************************************************************)
(* Inventory: the slot index check                                         *)
(* getItemAt is the first call of removeItemAt and the first two calls of  *)
(* moveItem; it throws before either touches the slot table.               *)
(***************************************************************************)
\* Mutant of getItemAt: no range check, a missing key reads as null
getItemAtUnchecked(s, slotIndex) ==
    [threw |-> FALSE,
     item  |-> IF slotIndex \in DOMAIN s THEN s[slotIndex] ELSE NoItem]

\* Inventory.getItemAt: throws outside [0, maxSlots), else slots.get(slotIndex) ?? null
getItemAt(s, slotIndex) ==
    [threw |-> slotIndex < 0 \/ slotIndex >= MaxSlots,
     item  |-> IF slotIndex \in DOMAIN s THEN s[slotIndex] ELSE NoItem]

\* Slot indices handed to the inventory: one below, the valid ones, one above
SlotArgs == (0 - 1)..MaxSlots

\* Inventory.getItemAt as a step
GetItemAt(slotIndex) ==
    LET r == getItemAt(slots, slotIndex) IN
    /\ lastInv' = InvCall("getItemAt", NoItem, slotIndex, NullSlot, ~r.threw, r.item, r.threw)
    /\ UNCHANGED <<slots, maxWeight, charVars, resVars, lastUse, svcVars>>

\* Inventory.removeItemAt for any index: getItemAt(slotIndex) comes first
RemoveItemAtAny(slotIndex, amount) ==
    IF getItemAt(slots, slotIndex).threw
    THEN /\ lastInv' = InvCall("removeItemAt", NoItem, slotIndex, amount, FALSE, NoItem, TRUE)
         /\ UNCHANGED <<slots, maxWeight, charVars, resVars, lastUse, svcVars>>
    ELSE RemoveItemAt(slotIndex, amount)

\* Inventory.moveItem for any indices: getItemAt(fromSlot), then getItemAt(toSlot)
MoveItemAny(fromSlot, toSlot) ==
    IF getItemAt(slots, fromSlot).threw \/ getItemAt(slots, toSlot).threw
    THEN /\ lastInv' = InvCall("moveItem", NoItem, fromSlot, toSlot, FALSE, NoItem, TRUE)
         /\ UNCHANGED <<slots, maxWeight, charVars, resVars, lastUse, svcVars>>
    ELSE MoveItem(fromSlot, toSlot)

(***************************************************************************)
(* Inventory.addItem: the depth of its recursion                           *)
(* The item handed to addItem is an object.  Every caller of the program   *)
(* creates it for the call; the method itself takes any Item, the one      *)
(* getItemAt returned included, and then item and a slot's existingItem    *)
(* can be one object.                                                      *)
(***************************************************************************)
\* The recursive calls addItem makes for an item object of its own
RECURSIVE recursiveCalls(_, _, _)
recursiveCalls(s, mw, item) ==
    IF ~hasSpaceFor(s, mw, item) THEN 0
    ELSE
      LET stackableSlot == findStackableSlot(s, item) IN
      IF stackableSlot # NullSlot /\ canStackWith(s[stackableSlot], item)
      THEN
        LET existingItem == s[stackableSlot]
            spaceInStack == existingItem.maxStack - existingItem.quantity
            amountToAdd  == Min2(item.quantity, spaceInStack)
            merged       == [s EXCEPT ![stackableSlot] = addToStack(existingItem, amountToAdd)]
            remaining    == item.quantity - amountToAdd
        IN  IF remaining > 0
            THEN 1 + recursiveCalls(merged, mw, removeFromStack(item, amountToAdd))
            ELSE 0
      ELSE 0

\* The depth past which the recursion is taken to end in the engine's
\* RangeError: deeper than one call per slot
MaxCalls == MaxSlots + 2

\* Inventory.addItem handed the object that slot held holds: item is s[held]
\* at every read, so existingItem.addToStack also raises item.quantity when
\* stackableSlot = held, and item.removeFromStack lowers the slot's quantity
RECURSIVE addItemHeld(_, _, _, _)
addItemHeld(s, mw, held, calls) ==
    LET item == s[held] IN
    IF calls > MaxCalls
    THEN [slots |-> s, success |-> FALSE, remainingItem |-> item, calls |-> calls,
          threw |-> TRUE]
    ELSE IF ~hasSpaceFor(s, mw, item)
    THEN [slots |-> s, success |-> FALSE, remainingItem |-> item, calls |-> calls,
          threw |-> FALSE]
    ELSE
      LET stackableSlot == findStackableSlot(s, item) IN
      IF stackableSlot # NullSlot /\ canStackWith(s[stackableSlot], item)
      THEN
        LET existingItem == s[stackableSlot]
            spaceInStack == existingItem.maxStack - existingItem.quantity
            amountToAdd  == Min2(item.quantity, spaceInStack)
            merged       == [s EXCEPT ![stackableSlot] = addToStack(existingItem, amountToAdd)]
            remaining    == merged[held].quantity - amountToAdd
        IN  IF remaining > 0
            THEN addItemHeld([merged EXCEPT ![held] = removeFromStack(merged[held], amountToAdd)],
                             mw, held, calls + 1)
            ELSE [slots |-> merged, success |-> TRUE, remainingItem |-> NoItem,
                  calls |-> calls, threw |-> FALSE]
      ELSE
        LET emptySlot == getEmptySlotIndex(s) IN
        IF emptySlot # NullSlot
        THEN [slots |-> [s EXCEPT ![emptySlot] = item], success |-> TRUE,
              remainingItem |-> NoItem, calls |-> calls, threw |-> FALSE]
        ELSE [slots |-> s, success |-> FALSE, remainingItem |-> item, calls |-> calls,
              threw |-> FALSE]

\* Inventory.addItem as a step for an item object of its own; the record keeps
\* the number of recursive calls in a
AddItemFresh(item) ==
    LET r == addItem(slots, maxWeight, item) IN
    /\ lastInv.b = NullSlot
    /\ slots' = r.slots
    /\ lastInv' = InvCall("addItem", item, recursiveCalls(slots, maxWeight, item), NullSlot,
                          r.success, r.remainingItem, FALSE)
    /\ UNCHANGED <<maxWeight, charVars, resVars, lastUse, svcVars>>

\* inventory.addItem(inventory.getItemAt(held)) as a step; the record keeps the
\* number of recursive calls in a and the slot in b.  After it two slots can
\* hold one object, which a table of values does not express: the exploration
\* ends with this call.
AddItemHeld(held) ==
    LET r == addItemHeld(slots, maxWeight, held, 0) IN
    /\ lastInv.b = NullSlot
    /\ slots[held] # NoItem
    /\ slots' = r.slots
    /\ lastInv' = InvCall("addItem", slots[held], r.calls, held,
                          r.success, r.remainingItem, r.threw)
    /\ UNCHANGED <<maxWeight, charVars, resVars, lastUse, svcVars>>

(***************************************************************************)
(* EventBus: each subscription on its own                                  *)
(* subscribe can be called again with a callback the Set already holds.    *)
(* Here a closure is kept as <<type, callback, n>>, n numbering the calls  *)
(* of subscribe, and subscribed holds the registrations whose own closure  *)
(* has not been called, oldest first.                                      *)
(***************************************************************************)
\* The calls of subscribe explored between two calls of clear
MaxSubscriptions == Cardinality(Callbacks)

\* EventBus.subscribe, the n-th call
SubscribeNth(type, callback) ==
    LET callbacks == IF type \in DOMAIN listeners THEN listeners[type] ELSE <<>>
        n         == Cardinality(unsubscribers) + 1
    IN  /\ n <= MaxSubscriptions
        /\ listeners' = [t \in DOMAIN listeners \cup {type} |->
                           IF t = type THEN SetAdd(callbacks, callback) ELSE listeners[t]]
        /\ unsubscribers' = unsubscribers \cup {<<type, callback, n>>}
        /\ subscribed' = Append(subscribed, <<type, callback, n>>)
        /\ lastBus' = BusCall("subscribe", type, callback, <<>>)
        /\ UNCHANGED <<charVars, invVars, resVars, lastUse, restored, timeVars, weatherVars,
                       trail, itemVars>>

\* The closure the n-th call returned, called by its holder: callbacks.delete
UnsubscribeNth(closure) ==
    /\ closure \in unsubscribers
    /\ listeners' = [listeners EXCEPT ![closure[1]] = SetDelete(@, closure[2])]
    /\ subscribed' = SetDelete(subscribed, closure)
    /\ lastBus' = BusCall("unsubscribe", closure[1], closure[2], <<>>)
    /\ UNCHANGED <<unsubscribers, charVars, invVars, resVars, lastUse, restored, timeVars,
                   weatherVars, trail, itemVars>>

(***************************************************************************)
(* EventBus: listeners that call the bus back                              *)
(* publish walks the live Set with for...of.  A Set iterator visits the    *)
(* members in insertion order, visits a member added before the walk ends  *)
(* and does not visit a member deleted before it was reached.  Here a      *)
(* listener, when invoked, returns, subscribes a callback to the type      *)
(* being published, or calls the closure subscribe returned for one.       *)
(***************************************************************************)
\* What a listener does when it is invoked
Effects == {<<"return", "">>}
             \cup { <<op, c>> : op \in {"subscribe", "unsubscribe"}, c \in Callbacks }

\* What each callback does when it is invoked
Behaviours == [Callbacks -> Effects]

\* The walk of publish from a point on: members is the Set, pending the
\* members the iterator has not reached, closures the callbacks a closure of
\* this type exists for, inForce the subscriptions in force over every type
RECURSIVE walk(_, _, _)
walk(w, type, does) ==
    IF w.pending = <<>> THEN w
    ELSE LET callback == Head(w.pending)
             effect   == does[callback]
             rest     == Tail(w.pending)
             invoked  == Append(w.invoked, callback)
         IN  IF effect[1] = "subscribe"
             THEN walk([members  |-> SetAdd(w.members, effect[2]),
                        pending  |-> IF effect[2] \in Range(w.members) THEN rest
                                     ELSE Append(rest, effect[2]),
                        invoked  |-> invoked,
                        closures |-> w.closures \cup {effect[2]},
                        inForce  |-> SetAdd(w.inForce, <<type, effect[2]>>)], type, does)
             ELSE IF effect[1] = "unsubscribe" /\ effect[2] \in w.closures
             THEN walk([members  |-> SetDelete(w.members, effect[2]),
                        pending  |-> SetDelete(rest, effect[2]),
                        invoked  |-> invoked,
                        closures |-> w.closures,
                        inForce  |-> SetDelete(w.inForce, <<type, effect[2]>>)], type, does)
             ELSE walk([w EXCEPT !.pending = rest, !.invoked = invoked], type, does)

\* EventBus.publish with listeners that behave as does says
PublishReentrant(type, does) ==
    LET callbacks == publish(listeners, type)
        w == walk([members  |-> callbacks,
                   pending  |-> callbacks,
                   invoked  |-> <<>>,
                   closures |-> { c \in Callbacks : <<type, c>> \in unsubscribers },
                   inForce  |-> subscribed], type, does)
    IN  /\ listeners' = IF type \in DOMAIN listeners
                        THEN [listeners EXCEPT ![type] = w.members]
                        ELSE listeners
        /\ unsubscribers' = unsubscribers \cup { <<type, c>> : c \in w.closures }
        /\ subscribed' = w.inForce
        /\ lastBus' = BusCall("publish", type, "", w.invoked)
        /\ UNCHANGED <<charVars, invVars, resVars, lastUse, restored, timeVars, weatherVars,
                       trail, itemVars>>

(***************************************************************************)
(* The services at rest, for the specifications of the other subsystems    *)
(***************************************************************************)
ServicesIdle ==
    /\ restored = NoDoc
    /\ EventBusNew
    /\ TimeServiceNew
    /\ WeatherServiceNew
    /\ weather.timeUntilChange = 60
    /\ trail = <<>>
    /\ ItemIdle

(***************************************************************************)
(* Use cases: the record of the last call                                  *)
(***************************************************************************)
\* The record of a use-case call: its name, its argument, the fields of the
\* returned result and the events handed to EventBus.publish, in order
UseCall(op, arg, success, message, item, missing, drops, resourceDepleted, events) ==
    [op |-> op, arg |-> arg, success |-> success, message |-> message, item |-> item,
     missing |-> missing, drops |-> drops, resourceDepleted |-> resourceDepleted,
     events |-> events]

NoUse == UseCall("none", "", FALSE, "", NoItem, <<>>, <<>>, FALSE, <<>>)

\* A pine tree nobody touches and use cases nobody calls, for the
\* specifications of the Character and the Inventory on their own
ResourceIdle ==
    /\ ResourceCreate
    /\ resource.config = pine_tree
    /\ lastUse = NoUse
    /\ ServicesIdle

(***************************************************************************)
(* CraftItemUseCase                                                        *)
(* Weights are held in half kilograms, the unit of a gathered item's 0.5,  *)
(* so a crafted item's weight 1 is 2 and the player's ceiling 100 is 200.  *)
(***************************************************************************)
\* Mutant of canUseStamina: any amount is granted
canUseStaminaAlways(s, amount) == TRUE

\* Character.canUseStamina
canUseStamina(s, amount) == s.stamina >= amount

\* CraftingRecipes: requiredMaterials is a Map, read in insertion order
stone_axe ==
    [id |-> "stone_axe", name |-> "Stone Axe",
     resultItem |-> [id |-> <<"stone_axe">>, name |-> "Stone Axe", type |-> "tool"],
     requiredMaterials |-> << <<<<"wood">>, 3>>, <<<<"stone">>, 2>> >>,
     craftingTime |-> 5]
campfire ==
    [id |-> "campfire", name |-> "Campfire",
     resultItem |-> [id |-> <<"campfire">>, name |-> "Campfire", type |-> "material"],
     requiredMaterials |-> << <<<<"wood">>, 5>>, <<<<"stone">>, 3>> >>,
     craftingTime |-> 10]
cooked_meat ==
    [id |-> "cooked_meat", name |-> "Cooked Meat",
     resultItem |-> [id |-> <<"cooked_meat">>, name |-> "Cooked Meat", type |-> "food"],
     requiredMaterials |-> << <<<<"raw_meat">>, 1>> >>,
     craftingTime |-> 3]
CraftingRecipes == {stone_axe, campfire, cooked_meat}

\* CraftItemUseCase.checkMaterials: the missing list, in the Map's order
RECURSIVE checkMaterials(_, _)
checkMaterials(s, requiredMaterials) ==
    IF requiredMaterials = <<>> THEN <<>>
    ELSE LET itemId == Head(requiredMaterials)[1]
             needed == Head(requiredMaterials)[2]
             has    == countItem(s, itemId)
         IN  (IF has < needed
              THEN << [itemId |-> itemId, needed |-> needed, has |-> has] >>
              ELSE <<>>)
             \o checkMaterials(s, Tail(requiredMaterials))

\* The inner loop of consumeMaterials from slot i on: every slot of the
\* getAllSlots() snapshot is visited once, in index order
RECURSIVE ConsumeFrom(_, _, _, _)
ConsumeFrom(s, itemId, remaining, i) ==
    IF i >= MaxSlots THEN s
    ELSE IF s[i] # NoItem /\ s[i].id = itemId /\ remaining > 0
    THEN LET toRemove == Min2(remaining, s[i].quantity)
             removed  == removeItemAt(s, i, toRemove, 0).slots
         IN  IF remaining - toRemove = 0 THEN removed
             ELSE ConsumeFrom(removed, itemId, remaining - toRemove, i + 1)
    ELSE IF remaining = 0 THEN s
    ELSE ConsumeFrom(s, itemId, remaining, i + 1)

\* Mutant of consumeMaterials: only the first material is consumed
consumeFirstOnly(s, requiredMaterials) ==
    IF requiredMaterials = <<>> THEN s
    ELSE ConsumeFrom(s, Head(requiredMaterials)[1], Head(requiredMaterials)[2], 0)

\* CraftItemUseCase.consumeMaterials: the slot table after the call
RECURSIVE consumeMaterials(_, _)
consumeMaterials(s, requiredMaterials) ==
    IF requiredMaterials = <<>> THEN s
    ELSE consumeMaterials(
             ConsumeFrom(s, Head(requiredMaterials)[1], Head(requiredMaterials)[2], 0),
             Tail(requiredMaterials))

\* CraftItemUseCase.createCraftedItem
createCraftedItem(recipe) ==
    [id |-> recipe.resultItem.id, name |-> recipe.resultItem.name,
     type |-> recipe.resultItem.type,
     maxStack |-> IF recipe.resultItem.type = "material" THEN 20 ELSE 1,
     weight |-> 2 * 1, quantity |-> 1]

\* A rejection of a use case: nothing but the record of the call changes
Rejected(op, arg, message, missing, resourceDepleted) ==
    /\ lastUse' = UseCall(op, arg, FALSE, message, NoItem, missing, <<>>,
                          resourceDepleted, <<>>)
    /\ UNCHANGED <<charVars, invVars, resVars, svcVars>>

\* Mutant of staminaCostOf: the cost is the crafting time itself
staminaCostPlain(recipe) == recipe.craftingTime

\* The stamina cost of a recipe: const staminaCost = recipe.craftingTime * 2
staminaCostOf(recipe) == recipe.craftingTime * 2

\* character.useStamina(amount) inside a use case.  withStamina clamps, so the
\* Stats constructor accepts the new value
UseStaminaStep(amount) ==
    /\ updateStats(withStamina(stats, stats.stamina - amount))
    /\ lastCall' = Call("useStamina", amount, FALSE)
    /\ UNCHANGED position

\* CraftItemUseCase.execute, the event bus being the one the application passes
CraftExecute(recipe) ==
    LET staminaCost == staminaCostOf(recipe)
        missing     == checkMaterials(slots, recipe.requiredMaterials)
    IN
    IF ~isAlive
    THEN Rejected("craft", recipe.id, "Character is dead and cannot craft items", <<>>, FALSE)
    ELSE IF ~canUseStamina(stats, staminaCost)
    THEN Rejected("craft", recipe.id, "Not enough stamina to craft this item", <<>>, FALSE)
    ELSE IF missing # <<>>
    THEN Rejected("craft", recipe.id, "Missing required materials", missing, FALSE)
    ELSE
      LET consumed    == consumeMaterials(slots, recipe.requiredMaterials)
          craftedItem == createCraftedItem(recipe)
          addResult   == addItem(consumed, maxWeight, craftedItem)
      IN  /\ UseStaminaStep(staminaCost)
          /\ slots' = addResult.slots
          /\ lastInv' = InvCall("addItem", craftedItem, NullSlot, NullSlot,
                                addResult.success, addResult.remainingItem, FALSE)
          /\ lastUse' =
               IF ~addResult.success
               THEN UseCall("craft", recipe.id, FALSE,
                            "Inventory full - cannot add crafted item",
                            NoItem, <<>>, <<>>, FALSE, <<>>)
               ELSE UseCall("craft", recipe.id, TRUE, "Successfully crafted",
                            craftedItem, <<>>, <<>>, FALSE,
                            << [type |-> "ITEM_CRAFTED", itemId |-> recipe.resultItem.id,
                                itemName |-> recipe.name],
                               [type |-> "INVENTORY_CHANGED"] >>)
          /\ UNCHANGED <<maxWeight, resVars, svcVars>>

(***************************************************************************)
(* GatherResourceUseCase                                                   *)
(***************************************************************************)
\* GatherResourceUseCase.createItemFromDrop (weight 0.5, one half kilogram)
createItemFromDrop(drop, quantity) ==
    [id |-> drop.itemId, name |-> drop.itemName,
     type |-> IF drop.itemId = <<"berries">> THEN "food" ELSE "material",
     maxStack |-> 20, weight |-> 1, quantity |-> quantity]

\* Mutant of collectDrops: the drops after the first are not attempted
collectFirstOnly(s, mw, rawDrops) ==
    IF rawDrops = <<>>
    THEN [slots |-> s, drops |-> <<>>, events |-> <<>>, last |-> NoItem]
    ELSE LET drop      == Head(rawDrops)
             quantity  == drop.minQuantity
             item      == createItemFromDrop(drop, quantity)
             addResult == addItem(s, mw, item)
         IN  [slots  |-> addResult.slots,
              drops  |-> IF addResult.success
                         THEN << [itemName |-> drop.itemName, quantity |-> quantity] >>
                         ELSE <<>>,
              events |-> IF addResult.success
                         THEN << [type |-> "ITEM_COLLECTED", itemId |-> drop.itemId,
                                  itemName |-> drop.itemName, quantity |-> quantity] >>
                         ELSE <<>>,
              last   |-> InvCall("addItem", item, NullSlot, NullSlot, addResult.success,
                                 addResult.remainingItem, FALSE)]

\* The loop of execute over the raw drops: the slot table after it, the
\* collected drops, the ITEM_COLLECTED events in order and the last addItem call
RECURSIVE collectDrops(_, _, _)
collectDrops(s, mw, rawDrops) ==
    IF rawDrops = <<>>
    THEN [slots |-> s, drops |-> <<>>, events |-> <<>>, last |-> NoItem]
    ELSE LET drop      == Head(rawDrops)
             quantity  == drop.minQuantity
             item      == createItemFromDrop(drop, quantity)
             addResult == addItem(s, mw, item)
             rest      == collectDrops(addResult.slots, mw, Tail(rawDrops))
         IN  [slots  |-> rest.slots,
              drops  |-> (IF addResult.success
                          THEN << [itemName |-> drop.itemName, quantity |-> quantity] >>
                          ELSE <<>>) \o rest.drops,
              events |-> (IF addResult.success
                          THEN << [type |-> "ITEM_COLLECTED", itemId |-> drop.itemId,
                                   itemName |-> drop.itemName, quantity |-> quantity] >>
                          ELSE <<>>) \o rest.events,
              last   |-> IF rest.last # NoItem THEN rest.last
                         ELSE InvCall("addItem", item, NullSlot, NullSlot,
                                      addResult.success, addResult.remainingItem, FALSE)]

\* Mutant of publishedBy: the aggregate notification is published on every hit
publishedAlways(rawDrops, collected) ==
    collected \o << [type |-> "INVENTORY_CHANGED"] >>

\* The events execute publishes after a hit: nothing for an empty drop list,
\* else the collected drops' events and one INVENTORY_CHANGED
publishedBy(rawDrops, collected) ==
    IF Len(rawDrops) > 0
    THEN collected \o << [type |-> "INVENTORY_CHANGED"] >>
    ELSE <<>>

\* GatherResourceUseCase.execute(resource), toolId left at its default
GatherExecute ==
    LET staminaCost == resource.config.staminaCost IN
    IF ~isAlive
    THEN Rejected("gather", resource.config.name, "Character is dead", <<>>, FALSE)
    ELSE IF resource.isDepleted
    THEN Rejected("gather", resource.config.name, "Resource is depleted", <<>>, TRUE)
    ELSE IF ~canUseStamina(stats, staminaCost)
    THEN Rejected("gather", resource.config.name, "Not enough stamina", <<>>, FALSE)
    ELSE
      \E rolled \in rollDrops(resource.config.drops) :
        LET rawDrops  == hit(resource, rolled).drops
            collected == collectDrops(slots, maxWeight, rawDrops)
        IN  /\ UseStaminaStep(staminaCost)
            /\ HitStep(rolled)
            /\ slots' = collected.slots
            /\ lastInv' = IF collected.last # NoItem THEN collected.last ELSE lastInv
            /\ lastUse' = UseCall("gather", resource.config.name, TRUE,
                                  IF resource'.isDepleted THEN "Gathered from"
                                  ELSE "Hitting",
                                  NoItem, <<>>, collected.drops, resource'.isDepleted,
                                  publishedBy(rawDrops, collected.events))
            /\ UNCHANGED <<maxWeight, svcVars>>

(***************************************************************************)
(* Specifications                                                          *)
(***************************************************************************)
Init == CharacterCreate /\ InventoryCreate /\ ResourceIdle

\* The Character under its own operations (the inventory is left alone)
NextChar ==
    \/ UpdateStats
    \/ MoveTo
    \/ TakeDamage
    \/ Heal
    \/ Eat
    \/ Drink
    \/ UpdateTemperature
    \/ UseStamina
    \/ RegenStamina

SpecChar == Init /\ [][NextChar]_vars

\* One Character with full stats, for the specifications about the inventory
FullStats ==
    [health |-> MaxStat, maxHealth |-> MaxStat, hunger |-> MaxNeed, maxHunger |-> MaxNeed,
     thirst |-> MaxNeed, maxThirst |-> MaxNeed, temperature |-> 37,
     stamina |-> MaxStat - 1, maxStamina |-> MaxStat - 1]

InitInv == CharacterCreate /\ stats = FullStats /\ InventoryCreate /\ ResourceIdle

\* The Inventory under addItem, removeItemAt and moveItem
NextInv ==
    \/ \E item \in Incoming : AddItem(item)
    \/ \E i \in SlotIndices, amount \in RemoveAmounts : RemoveItemAt(i, amount)
    \/ \E i \in SlotIndices, j \in SlotIndices : MoveItem(i, j)

SpecInv == InitInv /\ [][NextInv]_vars

\* The Inventory under addItem alone, from an empty inventory, every incoming
\* item carrying at least one unit
NextAdd == \E item \in { it \in Incoming : it.quantity >= 1 } : AddItem(item)

SpecAdd == InitInv /\ [][NextAdd]_vars

\* The stack-merge scenario: a stone stack of maxStack 10 and an incoming stone
\* item of maxStack 20 (the maxStack GatherResourceUseCase gives what it creates)
\* that carries 15 units; both weigh one unit each
Stone10 == [id |-> <<"stone">>, name |-> "Stone", type |-> "material",
            maxStack |-> 10, weight |-> 1]
Stone20 == [id |-> <<"stone">>, name |-> "Stone", type |-> "material",
            maxStack |-> 20, weight |-> 1]
Carries15 == ItemOf(Stone20, 15)

\* What a slot may hold when the 15 units arrive
StackSlotValues ==
    { NoItem, ItemOf(Stone10, 2), ItemOf(Stone10, 7), ItemOf(Stone10, 10),
      ItemOf(Stone20, 5), ItemOf(Stone20, 20), ItemOf(Axe, 1), ItemOf(Oak, 1) }

\* Inventories as earlier addItem, removeItemAt and moveItem calls leave them,
\* under a tight ceiling and under Inventory.create's default ceiling
InitStack ==
    /\ CharacterCreate /\ stats = FullStats
    /\ slots \in [SlotIndices -> StackSlotValues]
    /\ maxWeight \in {15, 100}
    /\ lastInv = InvCall("create", NoItem, NullSlot, NullSlot, TRUE, NoItem, FALSE)
    /\ ResourceIdle

NextStack == AddItem(Carries15)

SpecStack == InitStack /\ [][NextStack]_vars

\* One Resource of each config under hit and updateRespawn, called directly and
\* through ResourceManager.update
InitRes ==
    /\ CharacterCreate /\ stats = FullStats
    /\ InventoryCreate
    /\ ResourceCreate
    /\ lastUse = NoUse
    /\ ServicesIdle

NextRes ==
    \/ Hit
    \/ \E deltaTime \in DeltaTimes : UpdateRespawn(deltaTime)
    \/ \E deltaTime \in DeltaTimes : ManagerUpdate(deltaTime)

SpecRes == InitRes /\ [][NextRes]_vars

\* The player's Stats as the application creates them, at a given health and
\* stamina
PlayerStats(health, stamina) ==
    [health |-> health, maxHealth |-> 100, hunger |-> 100, maxHunger |-> 100,
     thirst |-> 100, maxThirst |-> 100, temperature |-> 37,
     stamina |-> stamina, maxStamina |-> 100]

\* A player whose alive flag is the one updateStats derived
PlayerIs(values) ==
    /\ stats \in values
    /\ isAlive = StatsIsAlive(stats)
    /\ position = PositionZero
    /\ lastCall = [op |-> "updateStats", amount |-> 0, preHealth |-> stats.health,
                   preAlive |-> TRUE, threw |-> FALSE]

\* The player's inventory holding what earlier gathers and crafts left in it
InventoryHolds(values) ==
    /\ slots \in [SlotIndices -> values]
    /\ maxWeight = 2 * 100
    /\ lastInv = InvCall("create", NoItem, NullSlot, NullSlot, TRUE, NoItem, FALSE)

\* Crafting: a dead player and living ones around the recipes' stamina costs
CraftStats ==
    { PlayerStats(0, 100) } \cup { PlayerStats(100, st) : st \in {5, 10, 25, 100} }

WoodDrop  == pine_tree.drops[1]
StoneDrop == rock_formation.drops[1]

CraftSlotValues ==
    { NoItem }
    \cup { createItemFromDrop(WoodDrop, q) : q \in {2, 3, 5, 8} }
    \cup { createItemFromDrop(StoneDrop, q) : q \in {2, 3, 4} }
    \cup { createCraftedItem(stone_axe), createCraftedItem(campfire),
           [createCraftedItem(campfire) EXCEPT !.quantity = 20] }

InitCraft ==
    /\ PlayerIs(CraftStats)
    /\ InventoryHolds(CraftSlotValues)
    /\ ResourceIdle

NextCraft == \E recipe \in CraftingRecipes : CraftExecute(recipe)

SpecCraft == InitCraft /\ [][NextCraft]_vars

\* Gathering: a dead player, an exhausted one and one with stamina for a few
\* hits; stacks near and at maxStack
GatherStats == { PlayerStats(0, 100), PlayerStats(100, 1), PlayerStats(100, 10) }

GatherSlotValues ==
    { NoItem, createCraftedItem(stone_axe) }
    \cup { createItemFromDrop(WoodDrop, q) : q \in {16, 19} }
    \cup { createItemFromDrop(StoneDrop, q) : q \in {18, 20} }

\* A resource after n hits that returned no drops
RECURSIVE HitTimes(_, _)
HitTimes(r, n) == IF n = 0 THEN r ELSE HitTimes(hit(r, <<>>).resource, n - 1)

\* The resources of the world, untouched or one hit from depletion
ResourceStanding ==
    \E config \in RESOURCE_DEFINITIONS : \E n \in {0, config.health - 1} :
        /\ resource = HitTimes(ResourceNew(config), n)
        /\ lastRes = IF n = 0 THEN ResCall("create", 0, <<>>, FALSE, 0, 0)
                               ELSE ResCall("hit", 0, <<>>, FALSE, n, 0)

InitGather ==
    /\ PlayerIs(GatherStats)
    /\ InventoryHolds(GatherSlotValues)
    /\ ResourceStanding
    /\ lastUse = NoUse
    /\ ServicesIdle

NextGather ==
    \/ GatherExecute
    \/ ManagerUpdate(300)    \* a tick as long as the longest respawnTime

SpecGather == InitGather /\ [][NextGather]_vars

\* Serialization: a Character as its mutators leave it beside an empty
\* inventory, or the full-stats Character beside an inventory as addItem,
\* removeItemAt and moveItem leave it under Inventory.create's default ceiling
InitJson ==
    /\ \/ /\ stats \in StatsValues
          /\ position \in Positions
          /\ isAlive \in {TRUE, StatsIsAlive(stats)}
          /\ slots = [i \in SlotIndices |-> NoItem]
       \/ /\ stats = FullStats
          /\ position = PositionZero
          /\ isAlive = TRUE
          /\ slots \in [SlotIndices -> Incoming \cup {NoItem}]
    /\ lastCall = [op |-> "create", amount |-> 0, preHealth |-> stats.health,
                   preAlive |-> TRUE, threw |-> FALSE]
    /\ maxWeight = 100
    /\ lastInv = InvCall("create", NoItem, NullSlot, NullSlot, TRUE, NoItem, FALSE)
    /\ ResourceIdle

NextJson ==
    \/ CharacterRoundTrip
    \/ ItemRoundTrip
    \/ InventoryRoundTrip

SpecJson == InitJson /\ [][NextJson]_vars

\* The EventBus under subscribe, the closures it returned, publish and clear
NextBus ==
    \/ \E type \in EventTypes, callback \in Callbacks : Subscribe(type, callback)
    \/ \E type \in EventTypes, callback \in Callbacks : Unsubscribe(type, callback)
    \/ \E type \in EventTypes : Publish(type)
    \/ Clear

SpecBus == InitInv /\ [][NextBus]_vars

\* The TimeService under update
NextTime == \E deltaTime \in TimeSteps : TimeUpdate(deltaTime)

SpecTime == InitInv /\ [][NextTime]_vars

\* The WeatherService under setNight and update, from every first countdown
InitWeather ==
    /\ CharacterCreate /\ stats = FullStats
    /\ InventoryCreate
    /\ ResourceCreate /\ resource.config = pine_tree
    /\ lastUse = NoUse
    /\ restored = NoDoc
    /\ EventBusNew
    /\ TimeServiceNew
    /\ WeatherServiceNew
    /\ trail = <<>>
    /\ ItemIdle

NextWeather ==
    \/ \E night \in BOOLEAN : SetNight(night)
    \/ \E deltaTime \in WeatherSteps : WeatherUpdate(deltaTime)

SpecWeather == InitWeather /\ [][NextWeather]_vars

\* The Stats the Character test creates before each case
BaseStats == PlayerStats(100, 100)

\* A call of the chain of the "multiple needs" case: updateStats installs the
\* new Stats and the call is appended to the trail
NeedsCall(call, arg, newStats) ==
    /\ Len(trail) < 3
    /\ updateStats(newStats)
    /\ lastCall' = Call(call, arg, FALSE)
    /\ trail' = Append(trail, <<call, arg>>)
    /\ UNCHANGED <<position, invVars, resVars, lastUse, restored, busVars, timeVars,
                   weatherVars, itemVars>>

\* character.updateStats(stats.withHunger(hunger)), stats being the base value
UpdateStatsWithHunger(hunger) ==
    NeedsCall("updateStats(withHunger)", hunger, withHunger(BaseStats, hunger))

\* character.updateStats(stats.withThirst(thirst)), stats being the base value
UpdateStatsWithThirst(thirst) ==
    NeedsCall("updateStats(withThirst)", thirst, withThirst(BaseStats, thirst))

\* character.updateTemperature(newTemp)
UpdateTemperatureTo(newTemp) ==
    NeedsCall("updateTemperature", newTemp, withTemperature(stats, newTemp))

\* The needs scenario: the test's Character under chains of up to three calls,
\* with values on both sides of each need's threshold
InitNeeds ==
    /\ PlayerIs({BaseStats})
    /\ InventoryCreate
    /\ ResourceIdle

NextNeeds ==
    \/ \E hunger \in {10, 20, 60} : UpdateStatsWithHunger(hunger)
    \/ \E thirst \in {15, 20, 70} : UpdateStatsWithThirst(thirst)
    \/ \E newTemp \in {30, 34, 37, 41} : UpdateTemperatureTo(newTemp)

SpecNeeds == InitNeeds /\ [][NextNeeds]_vars

\* One Item under addToStack, removeFromStack and split
InitItem ==
    /\ CharacterCreate /\ stats = FullStats
    /\ InventoryCreate
    /\ ResourceCreate /\ resource.config = pine_tree
    /\ lastUse = NoUse
    /\ restored = NoDoc
    /\ EventBusNew
    /\ TimeServiceNew
    /\ WeatherServiceNew /\ weather.timeUntilChange = 60
    /\ trail = <<>>
    /\ ItemCreate

NextItem ==
    \/ \E amount \in StackAmounts : AddToStack(amount)
    \/ \E amount \in StackAmounts : RemoveFromStack(amount)
    \/ \E amount \in StackAmounts : Split(amount)

SpecItem == InitItem /\ [][NextItem]_vars

\* Values handed to Stats.create: one of health, hunger, thirst and stamina
\* runs from one below 0 to one above its maximum
RawStats ==
    { [FullStats EXCEPT !.health = v]  : v \in (0 - 1)..(MaxStat + 1) } \cup
    { [FullStats EXCEPT !.hunger = v]  : v \in (0 - 1)..(MaxNeed + 1) } \cup
    { [FullStats EXCEPT !.thirst = v]  : v \in (0 - 1)..(MaxNeed + 1) } \cup
    { [FullStats EXCEPT !.stamina = v] : v \in (0 - 1)..MaxStat }

\* Stats.create(...) as a step: the constructor runs validateStats and throws,
\* or returns the value; no entity is touched either way
StatsCreate(raw) ==
    /\ lastCall' = Call("Stats.create", raw, ~validateStats(raw))
    /\ UNCHANGED <<stats, isAlive, position, invVars, resVars, lastUse, svcVars>>

\* An inventory whose slots are empty or hold wood, and a full character
InitErr ==
    /\ CharacterCreate /\ stats = FullStats
    /\ slots \in [SlotIndices -> {NoItem, ItemOf(Wood, 2)}]
    /\ maxWeight = MaxWeight
    /\ lastInv = InvCall("create", NoItem, NullSlot, NullSlot, TRUE, NoItem, FALSE)
    /\ ResourceIdle

\* The inventory under indices in and out of range, Stats under values in and out
NextErr ==
    \/ \E i \in SlotArgs : GetItemAt(i)
    \/ \E i \in SlotArgs, amount \in {1, WoodStack} : RemoveItemAtAny(i, amount)
    \/ \E i \in SlotArgs, j \in SlotArgs : MoveItemAny(i, j)
    \/ \E raw \in RawStats : StatsCreate(raw)

SpecErr == InitErr /\ [][NextErr]_vars

\* An empty inventory under addItem, handed new items and items it holds
NextRecur ==
    \/ \E item \in { it \in Incoming : it.quantity >= 1 } : AddItemFresh(item)
    \/ \E held \in SlotIndices : AddItemHeld(held)

SpecRecur == InitInv /\ [][NextRecur]_vars

\* The EventBus with every subscription told apart
NextUnsub ==
    \/ \E type \in EventTypes, callback \in Callbacks : SubscribeNth(type, callback)
    \/ \E type \in EventTypes, callback \in Callbacks, n \in 1..MaxSubscriptions :
          UnsubscribeNth(<<type, callback, n>>)
    \/ \E type \in EventTypes : Publish(type)
    \/ Clear

SpecUnsub == InitInv /\ [][NextUnsub]_vars

\* The Inventory under calls made with positive quantities and amounts
NextPos ==
    \/ \E item \in { it \in Incoming : it.quantity >= 1 } : AddItem(item)
    \/ \E i \in SlotIndices, amount \in 1..WoodStack : RemoveItemAt(i, amount)
    \/ \E i \in SlotIndices, j \in SlotIndices : MoveItem(i, j)

SpecPos == InitInv /\ [][NextPos]_vars

\* The EventBus with listeners that subscribe and unsubscribe while invoked
\* (one event type: a listener acts on the type being published)
Republished == {"INVENTORY_CHANGED"}

NextReentrant ==
    \/ \E type \in Republished, callback \in Callbacks : Subscribe(type, callback)
    \/ \E type \in Republished, callback \in Callbacks : Unsubscribe(type, callback)
    \/ \E type \in Republished, does \in Behaviours : PublishReentrant(type, does)
    \/ Clear

SpecReentrant == InitInv /\ [][NextReentrant]_vars

Next == NextChar \/ NextInv \/ NextRes \/ NextCraft \/ NextGather \/ NextJson \/ NextBus \/ NextTime
        \/ NextWeather \/ NextNeeds \/ NextItem \/ NextErr \/ NextRecur
        \/ NextUnsub \/ NextPos \/ NextReentrant

Spec == Init /\ [][Next]_vars

(***************************************************************************)
(* Claims about Stats and Character (specification SpecChar)               *)
(***************************************************************************)
StatMutators == {"takeDamage", "heal", "eat", "drink", "useStamina", "regenStamina"}
Mutations == StatMutators \cup {"updateTemperature", "updateStats", "moveTo"}

\* C2: in every reachable state health, hunger, thirst and stamina each lie in
\* [0, max], whatever amounts were passed; and a heal whose amount carries the
\* health to or past maxHealth leaves it at exactly maxHealth (heal(30) at 90/100
\* gives 100).
C2_StatsInRange ==
    /\ 0 <= stats.health  /\ stats.health  <= stats.maxHealth
    /\ 0 <= stats.hunger  /\ stats.hunger  <= stats.maxHunger
    /\ 0 <= stats.thirst  /\ stats.thirst  <= stats.maxThirst
    /\ 0 <= stats.stamina /\ stats.stamina <= stats.maxStamina
    /\ (lastCall.op = "heal" /\ lastCall.preHealth + lastCall.amount >= stats.maxHealth)
          => stats.health = stats.maxHealth

\* C2 witness: a heal below the maximum by more than the missing health was clamped
C2_Witness ==
    /\ lastCall.op = "heal"
    /\ lastCall.preHealth < stats.maxHealth
    /\ lastCall.preHealth + lastCall.amount > stats.maxHealth
    /\ stats.health = stats.maxHealth

\* C3: after any mutation of a Character created from a valid Stats value, the
\* stored alive flag equals stats.isAlive(), i.e. it is true exactly when health > 0.
C3_AliveFlagMatchesStats ==
    lastCall.op \in Mutations => (isAlive <=> StatsIsAlive(stats))

\* C4: once the alive flag is false, no heal, eat, drink, useStamina, regenStamina,
\* updateTemperature or moveTo makes it true again.
C4_DeathIsAbsorbing ==
    ( /\ lastCall.op \in {"heal", "eat", "drink", "useStamina", "regenStamina",
                          "updateTemperature", "moveTo"}
      /\ ~lastCall.preAlive )
    => ~isAlive

\* C5: takeDamage(a) with a >= 0 on a living Character with health h leaves
\* health max(h - a, 0); with a >= h the Character is dead at health 0, with a < h
\* it stays alive.
C5_TakeDamage ==
    (lastCall.op = "takeDamage" /\ lastCall.amount >= 0 /\ lastCall.preAlive)
    => /\ stats.health = Max2(lastCall.preHealth - lastCall.amount, 0)
       /\ (lastCall.amount >= lastCall.preHealth => (stats.health = 0 /\ ~isAlive))
       /\ (lastCall.amount <  lastCall.preHealth => isAlive)

\* C5 witness: damage above the full health of a living Character killed it
C5_Witness ==
    /\ lastCall.op = "takeDamage"
    /\ lastCall.preAlive
    /\ lastCall.preHealth = stats.maxHealth
    /\ lastCall.amount > lastCall.preHealth
    /\ stats.health = 0
    /\ ~isAlive

(***************************************************************************)
(* Claims about Item and Inventory                                         *)
(***************************************************************************)
\* The quantity carried by a returned item, 0 for null
QuantityOf(ret) == IF ret = NoItem THEN 0 ELSE ret.quantity

\* The slots other than the given ones are left as they were
OthersUnchanged(keep) == \A k \in SlotIndices \ keep : slots'[k] = slots[k]

\* C1 (specification SpecAdd): after every addItem call that returns success, in
\* any sequence of addItem calls on an inventory that starts empty, the sum of
\* weight x quantity over the occupied slots is at most maxWeight.
C1_WeightWithinCeiling ==
    (lastInv.op = "addItem" /\ lastInv.ok) => getCurrentWeight(slots) <= maxWeight

\* C7 (specification SpecInv): every addItem(item) call with incoming quantity q
\* raises the total quantity held of that item id by exactly q - r, r being the
\* quantity of the returned remainingItem, and r = 0 (no remainingItem) on success.
C7_AddConservesUnits ==
    [][ lastInv'.op = "addItem" =>
          LET item == lastInv'.item
              r    == QuantityOf(lastInv'.ret)
          IN  /\ countItem(slots', item.id) = countItem(slots, item.id) + item.quantity - r
              /\ lastInv'.ok => lastInv'.ret = NoItem
      ]_vars

\* C7 witness: an add that stacked part of its units and failed with the rest
C7_Witness ==
    /\ lastInv.op = "addItem"
    /\ ~lastInv.ok
    /\ lastInv.ret # NoItem
    /\ 0 < lastInv.ret.quantity
    /\ lastInv.ret.quantity < lastInv.item.quantity

\* C8 (specification SpecInv): removeItemAt(slot, amount) on an occupied slot
\* holding quantity q: with amount >= q the slot becomes empty and the returned
\* item has quantity q; with 0 < amount < q the slot keeps the same item with
\* quantity q - amount and the call returns an item with quantity amount whose
\* id differs from the source item's; on an empty slot it returns null and
\* changes nothing.
C8_RemoveItemAt ==
    [][ lastInv'.op = "removeItemAt" =>
          LET i      == lastInv'.a
              amount == lastInv'.b
              item   == slots[i]
              ret    == lastInv'.ret
          IN  IF item = NoItem
              THEN ret = NoItem /\ slots' = slots
              ELSE /\ amount >= item.quantity =>
                        /\ slots'[i] = NoItem
                        /\ ret = item
                        /\ ret.quantity = item.quantity
                        /\ OthersUnchanged({i})
                   /\ (0 < amount /\ amount < item.quantity) =>
                        /\ slots'[i] = [item EXCEPT !.quantity = item.quantity - amount]
                        /\ ret # NoItem
                        /\ ret.quantity = amount
                        /\ ret.id # item.id
                        /\ OthersUnchanged({i})
      ]_vars

\* C8 witness: a partial removal returned a new item and left the rest in the slot
C8_Witness ==
    /\ lastInv.op = "removeItemAt"
    /\ lastInv.ret # NoItem
    /\ slots[lastInv.a] # NoItem
    /\ slots[lastInv.a].quantity > 0
    /\ lastInv.ret.quantity = lastInv.b
    /\ lastInv.ret.id # slots[lastInv.a].id

\* Stack compatibility as the specification words it: equal id, name and type,
\* neither stack at maxStack
SameKind(a, b) == a.id = b.id /\ a.name = b.name /\ a.type = b.type
AtMaxStack(a) == a.quantity >= a.maxStack
SpecCompatible(a, b) == SameKind(a, b) /\ ~AtMaxStack(a) /\ ~AtMaxStack(b)

\* What moveItem is to do when it merges fromSlot into toSlot (two slots)
MergedInto(fromSlot, toSlot) ==
    LET fromItem == slots[fromSlot]
        toItem   == slots[toSlot]
        moved    == Min2(fromItem.quantity, toItem.maxStack - toItem.quantity)
    IN  /\ slots'[toSlot] = [toItem EXCEPT !.quantity = toItem.quantity + moved]
        /\ slots'[fromSlot] = IF fromItem.quantity - moved = 0
                              THEN NoItem
                              ELSE [fromItem EXCEPT !.quantity = fromItem.quantity - moved]
        /\ OthersUnchanged({fromSlot, toSlot})

\* What moveItem is to do when the target slot is empty
Relocated(fromSlot, toSlot) ==
    /\ slots'[toSlot] = slots[fromSlot]
    /\ slots'[fromSlot] = NoItem
    /\ OthersUnchanged({fromSlot, toSlot})

C10_SwapWhenIncompatible ==
    [][ ( /\ lastInv'.op = "moveItem"
          /\ slots[lastInv'.a] # NoItem
          /\ slots[lastInv'.b] # NoItem
          /\ ~SpecCompatible(slots[lastInv'.a], slots[lastInv'.b]) ) =>
          /\ slots'[lastInv'.a] = slots[lastInv'.b]
          /\ slots'[lastInv'.b] = slots[lastInv'.a]
          /\ lastInv'.ok
      ]_vars

\* The slots whose item can take the incoming item
MatchingSlots(item) ==
    { i \in SlotIndices : slots[i] # NoItem /\ canStackWith(slots[i], item) }

\* The case of C6: the call adds the item carrying 15 units and slot k, holding
\* 2 of a maxStack of 10, is the one matching stack
MergeCase(k) ==
    /\ lastInv'.op = "addItem"
    /\ lastInv'.item.quantity = 15
    /\ MatchingSlots(lastInv'.item) = {k}
    /\ slots[k].quantity = 2
    /\ slots[k].maxStack = 10

\* C6 as stated (specification SpecStack): the matching stack ends full at 10 and
\* a remainder of exactly 5 units is placed in a new slot, or the add is rejected
\* if no slot is free.
C6_MergeAsStated ==
    [][ \A k \in SlotIndices : MergeCase(k) =>
          /\ slots'[k].quantity = 10
          /\ \/ /\ lastInv'.ok
                /\ \E e \in SlotIndices :
                      slots[e] = NoItem /\ slots'[e] # NoItem /\ slots'[e].quantity = 5
             \/ /\ ~lastInv'.ok
                /\ \A e \in SlotIndices : slots[e] # NoItem
      ]_vars

\* C6 as amended: the matching stack ends full at 10 and the remainder is exactly
\* 7 units (15 - 8); it is placed in the first empty slot when there is one and
\* the weight ceiling admits it, and otherwise the add returns failure with the
\* 7 units as remainingItem, the stack staying full.
C6_Merge ==
    [][ \A k \in SlotIndices : MergeCase(k) =>
          LET item   == lastInv'.item
              filled == [slots EXCEPT ![k] = [slots[k] EXCEPT !.quantity = 10]]
              rest   == [item EXCEPT !.quantity = 7]
              e      == getEmptySlotIndex(slots)
          IN  IF e # NullSlot /\ getCurrentWeight(filled) + getTotalWeight(rest) <= maxWeight
              THEN /\ lastInv'.ok
                   /\ lastInv'.ret = NoItem
                   /\ slots' = [filled EXCEPT ![e] = rest]
              ELSE /\ ~lastInv'.ok
                   /\ lastInv'.ret = rest
                   /\ slots' = filled
      ]_vars

\* C6 witness: the 15 units arrived, a stack of maxStack 10 is full and the 7
\* remaining units sit in a slot of their own
C6_Witness ==
    /\ lastInv.op = "addItem"
    /\ lastInv.item.quantity = 15
    /\ lastInv.ok
    /\ \E k \in SlotIndices, e \in SlotIndices :
          /\ k # e
          /\ slots[k] = ItemOf(Stone10, 10)
          /\ slots[e] = ItemOf(Stone20, 7)

\* The items held by two slots, in both orders
HeldPairs ==
    { <<slots[i], slots[j]>> : i \in { k \in SlotIndices : slots[k] # NoItem },
                               j \in { k \in SlotIndices : slots[k] # NoItem } }

\* C11 (specification SpecAdd): a.canStackWith(b) is true iff a and b have equal
\* id, name and type and neither a nor b is at maxStack; in particular
\* a.canStackWith(b) = b.canStackWith(a) for all items a, b.
C11_CanStackWithIsCompatibility ==
    \A p \in HeldPairs :
        /\ canStackWith(p[1], p[2]) <=> SpecCompatible(p[1], p[2])
        /\ canStackWith(p[1], p[2]) <=> canStackWith(p[2], p[1])

(***************************************************************************)
(* Claims about Resource (specification SpecRes)                           *)
(***************************************************************************)
\* C12: a Resource configured with health N >= 1, fresh or just respawned, is
\* depleted by exactly N hit() calls: each of the first N-1 hits lowers health
\* by 1, returns an empty drop list and leaves isDepleted false; the N-th hit
\* brings health to 0, sets isDepleted and sets the countdown to respawnTime.
C12_DepletedByNHits ==
    [][ (lastRes'.op = "hit" /\ ~resource.isDepleted) =>
          LET N == resource.config.health
              k == lastRes'.hits
          IN  /\ N >= 1
              /\ resource.health = N - lastRes.hits
              /\ resource'.health = resource.health - 1
              /\ k < N => /\ lastRes'.drops = <<>>
                          /\ ~resource'.isDepleted
                          /\ resource'.respawnTimer = resource.respawnTimer
              /\ k >= N => /\ k = N
                           /\ resource'.health = 0
                           /\ resource'.isDepleted
                           /\ resource'.respawnTimer = resource.config.respawnTime
      ]_vars

\* C12 witness: a resource of health above 1 was respawned once and then
\* depleted again by as many hits as its health
C12_Witness ==
    /\ lastRes.op = "hit"
    /\ resource.config.health > 1
    /\ lastRes.hits = resource.config.health
    /\ resource.isDepleted
    /\ resource.health = 0
    /\ resource.respawnTimer = resource.config.respawnTime

\* C13: after a depletion, over any sequence of updateRespawn(dt) calls with
\* dt >= 0, the call returns true exactly once, at the first call at which the
\* cumulative dt since depletion is >= respawnTime; health is then the configured
\* health, isDepleted is false and the countdown is 0.  Every earlier call
\* returns false and leaves the resource depleted, and updateRespawn on a
\* non-depleted resource returns false and changes nothing.
C13_RespawnOnce ==
    [][ lastRes'.op = "updateRespawn" =>
          LET total == lastRes.elapsed + lastRes'.deltaTime
              ret   == lastRes'.ret
          IN  IF ~resource.isDepleted
              THEN ~ret /\ resource' = resource
              ELSE /\ lastRes.elapsed < resource.config.respawnTime
                   /\ ret <=> total >= resource.config.respawnTime
                   /\ ret => /\ resource'.health = resource.config.health
                             /\ ~resource'.isDepleted
                             /\ resource'.respawnTimer = 0
                   /\ ~ret => /\ resource'.isDepleted
                              /\ resource'.health = resource.health
      ]_vars

\* C13 witness: the respawn came at a later call than the first after depletion
C13_Witness ==
    /\ lastRes.op = "updateRespawn"
    /\ lastRes.ret
    /\ lastRes.deltaTime > 0
    /\ lastRes.elapsed > lastRes.deltaTime
    /\ lastRes.elapsed >= resource.config.respawnTime
    /\ resource.health = resource.config.health
    /\ ~resource.isDepleted

\* C14: in every state reachable from construction by any interleaving of hit
\* and updateRespawn calls, health is >= 0 and isDepleted holds exactly when
\* health <= 0.
C14_HealthAndFlag ==
    /\ resource.health >= 0
    /\ resource.isDepleted <=> resource.health <= 0

\* C14 witness: a depleted resource at health 0 whose countdown is running,
\* and was hit again in vain
C14_Witness ==
    /\ lastRes.op = "hit"
    /\ resource.isDepleted
    /\ resource.health = 0
    /\ lastRes.elapsed > 0
    /\ resource.respawnTimer < resource.config.respawnTime

(***************************************************************************)
(* Claims about CraftItemUseCase (specification SpecCraft)                 *)
(***************************************************************************)
\* The recipe a craft call was given
RecipeOf(id) == CHOOSE recipe \in CraftingRecipes : recipe.id = id

\* The materials of a recipe as a set of <<item id, needed>> pairs
MaterialsOf(recipe) ==
    { recipe.requiredMaterials[k] : k \in 1..Len(recipe.requiredMaterials) }

\* Every required material has gone down by exactly the needed amount
MaterialsSpent(recipe) ==
    \A m \in MaterialsOf(recipe) : countItem(slots', m[1]) = countItem(slots, m[1]) - m[2]

\* The stamina has gone down by exactly craftingTime x 2
StaminaSpent(recipe) == stats'.stamina = stats.stamina - recipe.craftingTime * 2

\* C15: when execute(recipe) returns success, for every required material id
\* countItem(id) has decreased by exactly the required amount, countItem(result
\* item id) has increased by exactly 1 and the stamina has decreased by exactly
\* craftingTime x 2; with exactly 3 wood and 2 stone held and the recipe of 3
\* wood + 2 stone and craftingTime 5, the inventory ends with 0 wood, 0 stone and
\* one Stone Axe, and stamina is 10 lower.
C15_CraftSuccess ==
    [][ (lastUse'.op = "craft" /\ lastUse'.success) =>
          LET recipe == RecipeOf(lastUse'.arg)
              result == recipe.resultItem.id
          IN  /\ MaterialsSpent(recipe)
              /\ countItem(slots', result) = countItem(slots, result) + 1
              /\ StaminaSpent(recipe)
              /\ ( /\ recipe = stone_axe
                   /\ countItem(slots, <<"wood">>) = 3
                   /\ countItem(slots, <<"stone">>) = 2 ) =>
                   /\ countItem(slots', <<"wood">>) = 0
                   /\ countItem(slots', <<"stone">>) = 0
                   /\ \E i \in SlotIndices :
                         /\ slots'[i] # NoItem
                         /\ slots'[i].name = "Stone Axe"
                         /\ slots'[i].quantity = 1
                         /\ slots[i] # slots'[i]
                   /\ stats'.stamina = stats.stamina - 10
      ]_vars

\* C15 witness: the stone axe was crafted from exactly 3 wood and 2 stone
C15_Witness ==
    /\ lastUse.op = "craft"
    /\ lastUse.success
    /\ lastUse.arg = "stone_axe"
    /\ lastCall.op = "useStamina"
    /\ lastCall.amount = 10
    /\ countItem(slots, <<"wood">>) = 0
    /\ countItem(slots, <<"stone">>) = 0
    /\ countItem(slots, <<"stone_axe">>) = 1

\* The three precondition checks of execute pass in the state before the call
ChecksPass(recipe) ==
    /\ isAlive
    /\ stats.stamina >= recipe.craftingTime * 2
    /\ \A m \in MaterialsOf(recipe) : countItem(slots, m[1]) >= m[2]

\* C16: if all three precondition checks of execute(recipe) pass but the final
\* addItem of the crafted item fails, execute returns success=false with
\* item=null, and the required materials have already been removed and the
\* stamina cost already spent.
C16_CraftNotAtomic ==
    [][ ( /\ lastUse'.op = "craft"
          /\ ChecksPass(RecipeOf(lastUse'.arg))
          /\ lastInv'.op = "addItem"
          /\ ~lastInv'.ok ) =>
          /\ ~lastUse'.success
          /\ lastUse'.item = NoItem
          /\ MaterialsSpent(RecipeOf(lastUse'.arg))
          /\ StaminaSpent(RecipeOf(lastUse'.arg))
      ]_vars

\* C16 witness: a craft failed on a full inventory after taking the stamina
C16_Witness ==
    /\ lastUse.op = "craft"
    /\ ~lastUse.success
    /\ lastUse.message = "Inventory full - cannot add crafted item"
    /\ lastCall.op = "useStamina"
    /\ lastInv.op = "addItem"
    /\ ~lastInv.ok
    /\ \A i \in SlotIndices : slots[i] # NoItem

\* The materials of a recipe that are short in the state before the call, each
\* with its needed and held amounts
ShortOf(recipe) ==
    { [itemId |-> m[1], needed |-> m[2], has |-> countItem(slots, m[1])] :
        m \in { n \in MaterialsOf(recipe) : countItem(slots, n[1]) < n[2] } }

\* C17: execute(recipe) returns success=false, changes neither the inventory nor
\* any character stat and publishes no event, when (checked in this order) the
\* character is dead, the stamina is below craftingTime x 2, or some required
\* material is short; in the last case missingMaterials lists exactly the
\* material ids whose held quantity is below the needed one, each with its
\* needed and held amounts.
C17_CraftRejects ==
    [][ lastUse'.op = "craft" =>
          LET recipe == RecipeOf(lastUse'.arg)
              dead   == ~isAlive
              tired  == stats.stamina < recipe.craftingTime * 2
              short  == ShortOf(recipe)
              listed == { lastUse'.missing[k] : k \in 1..Len(lastUse'.missing) }
          IN  (dead \/ tired \/ short # {}) =>
                /\ ~lastUse'.success
                /\ slots' = slots
                /\ stats' = stats
                /\ isAlive' = isAlive
                /\ lastUse'.events = <<>>
                /\ dead => lastUse'.message = "Character is dead and cannot craft items"
                /\ (~dead /\ tired) =>
                      lastUse'.message = "Not enough stamina to craft this item"
                /\ (~dead /\ ~tired) =>
                      /\ lastUse'.message = "Missing required materials"
                      /\ listed = short
                      /\ Len(lastUse'.missing) = Cardinality(short)
      ]_vars

\* C17 witness: a craft was rejected for stone alone, wood being sufficient
C17_Witness ==
    /\ lastUse.op = "craft"
    /\ ~lastUse.success
    /\ lastUse.message = "Missing required materials"
    /\ Len(lastUse.missing) = 1
    /\ lastUse.missing[1].itemId = <<"stone">>
    /\ lastUse.missing[1].has > 0
    /\ lastUse.missing[1].has < lastUse.missing[1].needed
    /\ lastUse.events = <<>>

(***************************************************************************)
(* Claims about GatherResourceUseCase (specification SpecGather)           *)
(***************************************************************************)
\* The step is a call of execute: the call's record is a gather and the
\* resource was hit or left alone, not ticked by the manager
GatherStep ==
    /\ lastUse'.op = "gather"
    /\ (lastRes'.op = "hit" \/ lastRes' = lastRes)

\* The three rejection cases, in the state before the call
GatherDead     == ~isAlive
GatherDepleted == resource.isDepleted
GatherTired    == stats.stamina < resource.config.staminaCost

\* C18: execute(resource) returns success=false with no drops, leaves the
\* stamina, the resource's health and depleted flag and the inventory unchanged
\* and publishes no event when the character is dead, the resource is already
\* depleted or the stamina is below the resource's staminaCost; the result's
\* resourceDepleted is true only in the already-depleted case.
C18_GatherRejects ==
    [][ (GatherStep /\ (GatherDead \/ GatherDepleted \/ GatherTired)) =>
          /\ ~lastUse'.success
          /\ lastUse'.drops = <<>>
          /\ stats'.stamina = stats.stamina
          /\ resource'.health = resource.health
          /\ resource'.isDepleted = resource.isDepleted
          /\ slots' = slots
          /\ lastUse'.events = <<>>
          /\ lastUse'.resourceDepleted => GatherDepleted
          /\ (~GatherDead /\ GatherDepleted) => lastUse'.resourceDepleted
      ]_vars

\* C18 witness: a living player with stamina was turned away by a depleted
\* resource
C18_Witness ==
    /\ lastUse.op = "gather"
    /\ ~lastUse.success
    /\ lastUse.resourceDepleted
    /\ lastUse.message = "Resource is depleted"
    /\ isAlive
    /\ stats.stamina >= resource.config.staminaCost
    /\ resource.isDepleted

\* The step is a call of execute that passed the three checks and hit
GatherHit ==
    /\ GatherStep
    /\ ~GatherDead /\ ~GatherDepleted /\ ~GatherTired

\* The item a rolled drop is made into
DropItem(drop) == createItemFromDrop(drop, drop.minQuantity)

\* The drop went into the inventory whole: the units held of its id went up by
\* its quantity (the drops of one resource have different ids)
AddedWhole(drop) ==
    countItem(slots', drop.itemId) = countItem(slots, drop.itemId) + drop.minQuantity

\* The ITEM_COLLECTED notification of a drop
CollectedEvent(drop) ==
    [type |-> "ITEM_COLLECTED", itemId |-> drop.itemId, itemName |-> drop.itemName,
     quantity |-> drop.minQuantity]

\* The notifications due for a list of raw drops, in order
RECURSIVE EventsDue(_)
EventsDue(raw) ==
    IF raw = <<>> THEN <<>>
    ELSE (IF AddedWhole(Head(raw)) THEN << CollectedEvent(Head(raw)) >> ELSE <<>>)
         \o EventsDue(Tail(raw))

\* C19: when a gather hit depletes the resource, execute publishes one
\* ITEM_COLLECTED per drop that was successfully added to the inventory
\* (carrying that drop's item id, name and quantity), followed by exactly one
\* INVENTORY_CHANGED; a hit that does not deplete the resource publishes nothing.
C19_GatherEvents ==
    [][ GatherHit =>
          IF resource'.isDepleted
          THEN lastUse'.events =
                   EventsDue(lastRes'.drops) \o << [type |-> "INVENTORY_CHANGED"] >>
          ELSE lastUse'.events = <<>>
      ]_vars

\* C19 witness: a rock gave stone and ore, both collected, then the aggregate
\* notification
C19_Witness ==
    /\ lastUse.op = "gather"
    /\ lastUse.success
    /\ lastUse.resourceDepleted
    /\ Len(lastRes.drops) = 2
    /\ Len(lastUse.events) = 3
    /\ lastUse.events[1].type = "ITEM_COLLECTED"
    /\ lastUse.events[2].type = "ITEM_COLLECTED"
    /\ lastUse.events[3].type = "INVENTORY_CHANGED"

\* The inventory as the k-th raw drop finds it
SlotsBefore(raw, k) == collectDrops(slots, maxWeight, SubSeq(raw, 1, k - 1)).slots

\* The k-th raw drop fits: addItem takes it
Fits(raw, k) == addItem(SlotsBefore(raw, k), maxWeight, DropItem(raw[k])).success

\* C20: a rolled drop that does not fit in the inventory is not collected and is
\* not an error: execute still returns success=true, the drop is absent from
\* result.drops, no ITEM_COLLECTED is published for it, none of its units end up
\* in the inventory, and the other drops of the same hit are still attempted
\* independently.
C20_DropThatDoesNotFit ==
    [][ (GatherHit /\ resource'.isDepleted) =>
          LET raw == lastRes'.drops IN
          \A k \in 1..Len(raw) :
              LET drop == raw[k] IN
              IF Fits(raw, k)
              THEN /\ AddedWhole(drop)
                   /\ \E e \in 1..Len(lastUse'.events) :
                         lastUse'.events[e] = CollectedEvent(drop)
              ELSE /\ lastUse'.success
                   /\ \A d \in 1..Len(lastUse'.drops) :
                         lastUse'.drops[d].itemName # drop.itemName
                   /\ \A e \in 1..Len(lastUse'.events) :
                         lastUse'.events[e] # CollectedEvent(drop)
                   /\ countItem(slots', drop.itemId) = countItem(slots, drop.itemId)
      ]_vars

(***************************************************************************)
(* Claims about serialization (specification SpecJson)                     *)
(***************************************************************************)
\* Two items agree on every field the model holds
SameItem(a, b) ==
    /\ a.id = b.id
    /\ a.name = b.name
    /\ a.type = b.type
    /\ a.maxStack = b.maxStack
    /\ a.weight = b.weight
    /\ a.quantity = b.quantity
    /\ craftingMaterials(a) = craftingMaterials(b)

\* C21: fromJSON(toJSON(x)) returns, without throwing, a Character with the
\* same id, class, name, nine Stats fields, position and alive flag; an Item
\* with the same fields, quantity and craftingMaterials included; an Inventory
\* with the same id, maxSlots and maxWeight, an equal item at the same index
\* for every occupied slot and every empty slot still empty.
C21_RoundTrip ==
    /\ restored.kind = "character" =>
          /\ ~restored.back.threw
          /\ restored.back.value.id = restored.of.id
          /\ restored.back.value.characterClass = restored.of.characterClass
          /\ restored.back.value.name = restored.of.name
          /\ restored.back.value.stats = restored.of.stats
          /\ restored.back.value.position = restored.of.position
          /\ restored.back.value.isAlive = restored.of.isAlive
    /\ restored.kind = "item" =>
          /\ ~restored.back.threw
          /\ SameItem(restored.back.value, restored.of)
    /\ restored.kind = "inventory" =>
          /\ ~restored.back.threw
          /\ restored.back.value.id = restored.of.id
          /\ restored.back.value.maxSlots = restored.of.maxSlots
          /\ restored.back.value.maxWeight = restored.of.maxWeight
          /\ DOMAIN restored.back.value.slots = DOMAIN restored.of.slots
          /\ \A i \in DOMAIN restored.of.slots :
                IF restored.of.slots[i] = NoItem
                THEN restored.back.value.slots[i] = NoItem
                ELSE /\ restored.back.value.slots[i] # NoItem
                     /\ SameItem(restored.back.value.slots[i], restored.of.slots[i])

\* An inventory whose first slot is empty and whose last slot holds a stack
\* has been saved and read back
C21_Witness ==
    /\ restored.kind = "inventory"
    /\ restored.of.slots[0] = NoItem
    /\ restored.of.slots[MaxSlots - 1] # NoItem
    /\ restored.of.slots[MaxSlots - 1].quantity > 1

(***************************************************************************)
(* Claims about the EventBus (specification SpecBus)                       *)
(***************************************************************************)
\* How many times x occurs in a sequence
Occurrences(seq, x) == Cardinality({ i \in 1..Len(seq) : seq[i] = x })

\* The place of a subscription in the history of those in force
SubscribedAt(type, callback) ==
    CHOOSE i \in 1..Len(subscribed) : subscribed[i] = <<type, callback>>

\* C22: publish(event) invokes every callback subscribed to event.type at the
\* call exactly once, in the order of their subscriptions, and invokes no
\* callback that is subscribed to other event types only.
C22_PublishInvokes ==
    [][lastBus'.op = "publish" =>
         LET type == lastBus'.type
             invoked == lastBus'.invoked
         IN  /\ \A callback \in Callbacks :
                   Occurrences(invoked, callback) =
                       IF <<type, callback>> \in Range(subscribed) THEN 1 ELSE 0
             /\ \A i \in 1..Len(invoked), j \in 1..Len(invoked) :
                   i < j => SubscribedAt(type, invoked[i]) < SubscribedAt(type, invoked[j])
    ]_vars

\* A publish has invoked two callbacks, the later subscriber second, and has
\* left alone a callback subscribed to the other event type only
C22_Witness ==
    /\ lastBus.op = "publish"
    /\ lastBus.type = "INVENTORY_CHANGED"
    /\ lastBus.invoked = <<"inventoryPanel", "craftingPanel">>
    /\ <<"WEATHER_CHANGED", "weatherEffects">> \in Range(subscribed)
    /\ <<"INVENTORY_CHANGED", "weatherEffects">> \notin Range(subscribed)

(***************************************************************************)
(* Claims about the TimeService (specification SpecTime)                   *)
(***************************************************************************)
\* C23: from the initial clock value and under update(dt) with dt >= 0,
\* normalizedTime stays in [0, 1) (here [0, DayCycle)), and each call sets it
\* to (previous value + dt / dayCycleDuration) modulo 1.
C23_ClockWraps ==
    /\ [](normalizedTime >= 0 /\ normalizedTime < DayCycle)
    /\ [][lastTime'.op = "update" =>
            \E whole \in 0..2 :
                /\ normalizedTime' = normalizedTime + lastTime'.deltaTime - whole * DayCycle
                /\ normalizedTime' >= 0
                /\ normalizedTime' < DayCycle
       ]_vars

\* An update has carried the clock past the end of the day
C23_Witness ==
    /\ lastTime.op = "update"
    /\ lastTime.deltaTime = 9001
    /\ normalizedTime < 1998
    /\ lastTime.event.timeOfDay = "night"

(***************************************************************************)
(* Claims about the WeatherService (specification SpecWeather)             *)
(***************************************************************************)
\* transitionProgress and intensity lie in [0, 1], and a progress of 1 means
\* the target has been committed
WeatherInRange ==
    /\ weather.transitionProgress >= 0
    /\ weather.transitionProgress <= TRANSITION_DURATION
    /\ weather.intensity >= 0
    /\ weather.intensity <= TRANSITION_DURATION
    /\ weather.transitionProgress = TRANSITION_DURATION =>
          weather.currentWeather = weather.targetWeather

\* The progress an update from a progress below 1 interpolates to
ProgressDue == Min2(TRANSITION_DURATION, weather.transitionProgress + lastWeather'.deltaTime)

\* An update that starts with the progress below 1
UpdateMoving ==
    /\ lastWeather'.op = "update"
    /\ weather.transitionProgress < TRANSITION_DURATION

\* C24 as stated: transitionProgress and intensity lie in [0, 1]; while the
\* progress is below 1 each update(dt) with dt >= 0 leaves the progress at
\* min(1, progress + dt / TRANSITION_DURATION) and the intensity equal to it;
\* where the progress is 1 the current weather equals the target weather.
C24_ProgressAsStated ==
    /\ []WeatherInRange
    /\ [][UpdateMoving =>
             /\ weather'.transitionProgress = ProgressDue
             /\ weather'.intensity = weather'.transitionProgress
       ]_vars

\* C24, amended: the same, except that an update during which the countdown
\* also runs out ends with changeWeather, which leaves progress and intensity
\* at 0.
C24_Progress ==
    /\ []WeatherInRange
    /\ [][UpdateMoving =>
             IF lastWeather'.changed = <<>>
             THEN /\ weather'.transitionProgress = ProgressDue
                  /\ weather'.intensity = weather'.transitionProgress
             ELSE /\ ProgressDue = TRANSITION_DURATION
                  /\ weather'.transitionProgress = 0
                  /\ weather'.intensity = 0
       ]_vars

\* One update of 60 seconds has finished a transition and, its countdown
\* over, started the next one
C24_Witness ==
    /\ lastWeather.op = "update"
    /\ lastWeather.deltaTime = 60
    /\ lastWeather.committed # <<>>
    /\ lastWeather.changed # <<>>
    /\ weather.transitionProgress = 0
    /\ weather.currentWeather # weather.targetWeather

\* current + (target - current) x transitionProgress for one modifier, times
\* TRANSITION_DURATION
Blend(w, modifier) ==
    TRANSITION_DURATION * MODIFIERS[w.currentWeather][modifier]
    + (MODIFIERS[w.targetWeather][modifier] - MODIFIERS[w.currentWeather][modifier])
      * w.transitionProgress

\* The configured modifiers of a weather, times TRANSITION_DURATION
Configured(type) ==
    <<TRANSITION_DURATION * MODIFIERS[type].temperature,
      TRANSITION_DURATION * MODIFIERS[type].movement,
      TRANSITION_DURATION * MODIFIERS[type].visibility>>

\* C25: the three interpolated getters equal current + (target - current) x
\* transitionProgress (read here from the event each update publishes), and
\* they do not jump at a discrete event: right after changeWeather they are
\* what they were right before it, and at the commit they are the target's
\* configured modifiers both before and after it.
C25_NoJump ==
    [][lastWeather'.op = "update" =>
         /\ lastWeather'.event.temperatureModifier = Blend(weather', "temperature")
         /\ lastWeather'.event.movementModifier = Blend(weather', "movement")
         /\ lastWeather'.event.visibility = Blend(weather', "visibility")
         /\ lastWeather'.changed # <<>> =>
               lastWeather'.changed[1] = lastWeather'.changed[2]
         /\ lastWeather'.committed # <<>> =>
               /\ lastWeather'.committed[1] = Configured(weather.targetWeather)
               /\ lastWeather'.committed[2] = Configured(weather.targetWeather)
    ]_vars

\* A transition from snow to a blizzard has been committed, and a later
\* update has picked a new target from the blizzard
C25_Witness ==
    /\ lastWeather.op = "update"
    /\ lastWeather.changed # <<>>
    /\ weather.currentWeather = "blizzard"
    /\ weather.targetWeather = "cloudy"
    /\ lastWeather.changed[1] = Configured("blizzard")

(***************************************************************************)
(* Claims about the status summary (specification SpecNeeds)               *)
(***************************************************************************)
\* C26: after updateStats(s.withHunger(10)), then updateStats(s.withThirst(15)),
\* then updateTemperature(30), s being the base Stats with hunger and thirst
\* at 100, getStatusSummary reports needsFood, needsWater and needsWarmth all
\* true.
C26_NeedsAccumulate ==
    trail = << <<"updateStats(withHunger)", 10>>, <<"updateStats(withThirst)", 15>>,
               <<"updateTemperature", 30>> >>
    => /\ getStatusSummary(stats, isAlive).needsFood
       /\ getStatusSummary(stats, isAlive).needsWater
       /\ getStatusSummary(stats, isAlive).needsWarmth

(***************************************************************************)
(* Claims about the Item on its own (specification SpecItem)               *)
(***************************************************************************)
\* C28: under addToStack, removeFromStack and split the quantity satisfies
\* 0 <= quantity <= maxStack; split(amount) returns a split item only for
\* 0 < amount < quantity, and then the quantities of the original and of the
\* split item sum to the quantity before the split.
C28_QuantityInRange ==
    /\ [](heldItem # NoItem => heldItem.quantity >= 0 /\ heldItem.quantity <= heldItem.maxStack)
    /\ [][lastItem'.op = "split" =>
            IF lastItem'.ret # NoItem
            THEN /\ 0 < lastItem'.amount
                 /\ lastItem'.amount < heldItem.quantity
                 /\ heldItem'.quantity + lastItem'.ret.quantity = heldItem.quantity
            ELSE heldItem'.quantity = heldItem.quantity
       ]_vars

\* A slot index outside [0, maxSlots)
OutOfRange(slotIndex) == slotIndex < 0 \/ slotIndex >= MaxSlots

\* C27: getItemAt, removeItemAt and moveItem called with a slot index below 0
\* or >= maxSlots throw and leave every slot as it was, and Stats.create with
\* health, hunger, thirst or stamina outside [0, max] throws and produces no
\* value: the character keeps the Stats it had.
C27_FailLoudly ==
    /\ [][(/\ lastInv' # lastInv
           /\ lastInv'.op \in {"getItemAt", "removeItemAt", "moveItem"}
           /\ \/ OutOfRange(lastInv'.a)
              \/ lastInv'.op = "moveItem" /\ OutOfRange(lastInv'.b))
          => lastInv'.threw /\ slots' = slots]_vars
    /\ [][(/\ lastCall'.op = "Stats.create"
           /\ lastCall' # lastCall
           /\ LET raw == lastCall'.amount IN
              \/ raw.health < 0 \/ raw.health > raw.maxHealth
              \/ raw.hunger < 0 \/ raw.hunger > raw.maxHunger
              \/ raw.thirst < 0 \/ raw.thirst > raw.maxThirst
              \/ raw.stamina < 0 \/ raw.stamina > raw.maxStamina)
          => lastCall'.threw /\ stats' = stats /\ isAlive' = isAlive]_vars

\* An occupied inventory after removeItemAt(maxSlots, 1) threw
C27_Witness ==
    /\ lastInv.op = "removeItemAt" /\ lastInv.a = MaxSlots /\ lastInv.threw
    /\ \E i \in SlotIndices : slots[i] # NoItem

\* The compatible non-full stacks present when addItem(item) starts
CompatibleStacks(s, item) ==
    { i \in SlotIndices : s[i] # NoItem /\ canStackWith(s[i], item) }

\* C29: addItem terminates for every inventory state and every incoming item,
\* and the number of its recursive calls is at most the number of compatible
\* non-full stacks present when the call started.
C29_RecursionBounded ==
    [][lastInv'.op = "addItem" =>
          /\ ~lastInv'.threw
          /\ lastInv'.a <= Cardinality(CompatibleStacks(slots, lastInv'.item))]_vars

\* C30: every execute(resource) call that is not rejected lowers the stamina
\* by exactly the resource's staminaCost and the resource's health by exactly
\* 1, returns success=true, and reports resourceDepleted=true exactly on the
\* hit that brings the health to 0; the result's drops are empty on every
\* other hit.
C30_GatherAccepted ==
    [][ GatherHit =>
          /\ stats'.stamina = stats.stamina - resource.config.staminaCost
          /\ resource'.health = resource.health - 1
          /\ lastUse'.success
          /\ lastUse'.resourceDepleted <=> (resource'.health = 0)
          /\ (resource'.health # 0) => lastUse'.drops = <<>>
      ]_vars

\* C30 witness: a rock took a hit that left it standing, the player paid its
\* 8 stamina out of 10 and was handed nothing
C30_Witness ==
    /\ lastUse.op = "gather"
    /\ lastUse.success
    /\ ~lastUse.resourceDepleted
    /\ lastUse.drops = <<>>
    /\ resource.config.type = "rock"
    /\ resource.health >= 1
    /\ ~resource.isDepleted
    /\ stats.stamina = 2

(***************************************************************************)
(* Claims about the rolled drops (specification SpecGather)                *)
(***************************************************************************)
\* The drop of the config a reported name belongs to, with the reported
\* quantity inside its configured range
ConfiguredFor(config, itemName, quantity) ==
    \E j \in DOMAIN config.drops :
        /\ config.drops[j].itemName = itemName
        /\ config.drops[j].minQuantity <= quantity
        /\ quantity <= config.drops[j].maxQuantity

\* C31: for every random roll, each drop a depleting gather reports (in
\* result.drops and in ITEM_COLLECTED) is one of the resource's configured
\* drops with a quantity between its configured minQuantity and maxQuantity,
\* and the inventory received that same quantity.
C31_DropsInConfiguredRange ==
    [][ (GatherHit /\ resource'.isDepleted) =>
          /\ \A i \in DOMAIN lastUse'.drops :
                ConfiguredFor(resource.config, lastUse'.drops[i].itemName,
                              lastUse'.drops[i].quantity)
          /\ \A i \in DOMAIN lastUse'.events :
                lastUse'.events[i].type = "ITEM_COLLECTED" =>
                  /\ ConfiguredFor(resource.config, lastUse'.events[i].itemName,
                                   lastUse'.events[i].quantity)
                  /\ countItem(slots', lastUse'.events[i].itemId)
                       = countItem(slots, lastUse'.events[i].itemId)
                         + lastUse'.events[i].quantity
      ]_vars

(***************************************************************************)
(* Claims about the weather roll (specification SpecWeather)               *)
(***************************************************************************)
\* The step is an update that rolled a new target
WeatherRoll == lastWeather'.op = "update" /\ lastWeather'.changed # <<>>

\* The weather that is current when an update reaches its countdown: the
\* target a transition in progress commits, else the current weather
CommittedBy(w) ==
    IF w.transitionProgress < TRANSITION_DURATION THEN w.targetWeather ELSE w.currentWeather

\* The table row of a weather with the bonus on blizzard when night is set
RowWithBonus(from, night) ==
    [i \in 1..4 |-> TRANSITION_WEIGHTS[from][i]
                    + (IF i = 4 /\ night THEN NIGHT_BLIZZARD_BONUS ELSE 0)]

\* The targets weightedRandom can return for a list of weights
Selectable(weights) ==
    { weightedRandom(weights, random, 1) : random \in 0..(TotalWeight(weights, 1) - 1) }

\* C32: the weights of a roll are the table row of the committed current
\* weather, with NIGHT_BLIZZARD_BONUS added to blizzard only when the flag set
\* through setNight is true; blizzard's share of the total weight is strictly
\* greater with night=true than with night=false, the other weights being equal.
C32_NightBonus ==
    /\ [](LET from  == weather.currentWeather
              day   == getTransitionWeights(from, FALSE)
              night == getTransitionWeights(from, TRUE)
          IN  /\ getTransitionWeights(from, weather.isNight)
                    = RowWithBonus(from, weather.isNight)
              /\ \A i \in 1..3 : night[i] = day[i]
              /\ night[4] * TotalWeight(day, 1) > day[4] * TotalWeight(night, 1))
    /\ [][WeatherRoll =>
            /\ weather'.currentWeather = CommittedBy(weather)
            /\ weather'.targetWeather
                  \in Selectable(RowWithBonus(CommittedBy(weather), weather.isNight))]_vars

\* C32 witness: a roll at night out of snow chose the blizzard
C32_Witness ==
    /\ lastWeather.op = "update" /\ lastWeather.changed # <<>>
    /\ weather.isNight
    /\ weather.currentWeather = "snowing"
    /\ weather.targetWeather = "blizzard"

(***************************************************************************)
(* Claims about unsubscribing (specification SpecUnsub)                    *)
(***************************************************************************)
\* C33: the function subscribe returned removes exactly the subscription that
\* produced it: publish invokes a callback if and only if a subscription of it
\* to the event's type is left whose own function has not been called (another
\* subscription of the same callback to the same type included), and a second
\* call of the function changes nothing.
C33_UnsubscribeExact ==
    /\ [][lastBus'.op = "publish" =>
            \A callback \in Callbacks :
                callback \in Range(lastBus'.invoked)
                <=> \E r \in Range(subscribed) :
                        r[1] = lastBus'.type /\ r[2] = callback]_vars
    /\ [][(lastBus'.op = "unsubscribe" /\ subscribed' = subscribed)
            => listeners' = listeners]_vars

(***************************************************************************)
(* Claims about a failed add (specification SpecAdd)                       *)
(***************************************************************************)
\* C34: whenever addItem returns success=false, every slot holds exactly what
\* it held before the call and the returned remainingItem carries the full
\* incoming quantity.
C34_FailedAddIsLocal ==
    [][(lastInv'.op = "addItem" /\ ~lastInv'.ok) =>
          /\ slots' = slots
          /\ lastInv'.ret # NoItem
          /\ lastInv'.ret.quantity = lastInv'.item.quantity]_vars

(***************************************************************************)
(* Claims about the Inventory under positive arguments (SpecPos)           *)
(***************************************************************************)
\* C35: after any sequence of addItem, removeItemAt and moveItem calls made
\* with positive quantities and amounts, no occupied slot holds an item whose
\* quantity is 0.
C35_NoEmptyStack ==
    \A i \in SlotIndices : slots[i] # NoItem => slots[i].quantity > 0

\* C35 witness: removeItemAt took the last units of a stack of two and the
\* slot was cleared while the other slot still holds an item
C35_Witness ==
    /\ lastInv.op = "removeItemAt"
    /\ lastInv.ret # NoItem
    /\ lastInv.ret.quantity = 2 /\ lastInv.b = 2
    /\ slots[lastInv.a] = NoItem
    /\ \E i \in SlotIndices : slots[i] # NoItem

(***************************************************************************)
(* Claims about the frame of moveItem (specification SpecInv)              *)
(***************************************************************************)
\* The ids of the items a slot table holds
IdsHeld(s) == { s[i].id : i \in { j \in SlotIndices : s[j] # NoItem } }

AtCountdown(w, deltaTime) ==
    IF w.transitionProgress < TRANSITION_DURATION
    THEN LET advanced == interpolate(w, deltaTime)
         IN  IF advanced.transitionProgress >= TRANSITION_DURATION
             THEN commit(advanced) ELSE advanced
    ELSE w

\* C37: under update(dt) with dt >= 0 a roll only happens with
\* transitionProgress at 1 (here TRANSITION_DURATION): the target chosen by
\* the roll before is the current weather when the next roll is made, so no
\* chosen target is skipped.
C37_NoTargetSkipped ==
    [][WeatherRoll =>
          LET w == AtCountdown(weather, lastWeather'.deltaTime)
          IN  /\ w.transitionProgress = TRANSITION_DURATION
              /\ w.currentWeather = weather.targetWeather
              /\ weather'.currentWeather = weather.targetWeather]_vars

\* C37 witness: three updates of 20 seconds after a roll, the second of which
\* committed its target, reached the next roll at the shortest countdown
C37_Witness ==
    /\ lastWeather.op = "update"
    /\ lastWeather.deltaTime = 20
    /\ lastWeather.changed # <<>>
    /\ lastWeather.committed = <<>>
    /\ weather.currentWeather = "cloudy"
    /\ weather.targetWeather = "snowing"

\* The place of a weather in weatherOrder
OrderOf(w) == CHOOSE i \in 1..Len(weatherOrder) : weatherOrder[i] = w

\* C38: for every draw in [0, total) a roll never selects a target whose
\* weight for the current weather is 0, and with the night flag off the new
\* target differs from the current weather.
C38_NoZeroWeightTarget ==
    [][WeatherRoll =>
          /\ getTransitionWeights(weather'.currentWeather, weather'.isNight)
                 [OrderOf(weather'.targetWeather)] > 0
          /\ ~weather'.isNight => weather'.targetWeather # weather'.currentWeather]_vars

(***************************************************************************)
(* Claims about publish with listeners that call the bus back              *)
(* (specification SpecReentrant)                                           *)
(***************************************************************************)
\* C39: the listeners one publish invokes are exactly the listeners that were
\* subscribed to the event's type when the call started, whatever the
\* listeners subscribe or unsubscribe during the call
C39_InvokedFixedAtStart ==
    [][lastBus'.op = "publish"
         => Range(lastBus'.invoked) = Range(publish(listeners, lastBus'.type))]_vars

(***************************************************************************)
(* Claims about the notifications of the use cases (specification          *)
(* SpecCraft)                                                              *)
(***************************************************************************)
\* The call published an event of this type before it returned
Published(call, type) == \E i \in 1..Len(call.events) : call.events[i].type = type

\* C40: every CraftItemUseCase.execute or GatherResourceUseCase.execute call
\* that changes the contents of the inventory publishes at least one
\* INVENTORY_CHANGED before it returns
C40_ChangeIsNotified ==
    [][lastUse'.op \in {"craft", "gather"} /\ slots' # slots
         => Published(lastUse', "INVENTORY_CHANGED")]_vars

=============================================================================
